---- MODULE Spec2Model ----
(***************************************************************************)
(* Repository-name construction and validation of rapid-flutter-gcp.       *)
(*                                                                         *)
(* The repository carries two variants of the naming module:               *)
(*   "naming"    scripts/_naming.mjs     (imported by new-project.mjs and   *)
(*                                        by the jest tests)                *)
(*   "templates" scripts/_templates.mjs  (lines 120-202)                    *)
(* Both are modelled, operator by operator.  A JavaScript string is a       *)
(* sequence of one-character strings; a JavaScript value is a record        *)
(* [t |-> type tag, v |-> characters].                                      *)
(***************************************************************************)
EXTENDS Integers, Sequences, FiniteSets, TLC

\* ------------------------------------------------------------------ bounds
\* longest input string, counted in pieces of NamePieces
MaxPieces == 3

\* ------------------------------------------------------- characters, values
LowerSeq == <<"a","b","c","d","e","f","g","h","i","j","k","l","m",
              "n","o","p","q","r","s","t","u","v","w","x","y","z">>
UpperSeq == <<"A","B","C","D","E","F","G","H","I","J","K","L","M",
              "N","O","P","Q","R","S","T","U","V","W","X","Y","Z">>
DigitSeq == <<"0","1","2","3","4","5","6","7","8","9">>

Lower == {LowerSeq[i] : i \in 1..26}
Upper == {UpperSeq[i] : i \in 1..26}
Digit == {DigitSeq[i] : i \in 1..10}
\* the character class [a-z0-9]
AlNum == Lower \cup Digit
\* the characters String.prototype.trim removes (those that occur in the model)
WhiteSpace == {" ", "\t"}

Variants == {"naming", "templates"}

\* JavaScript values that reach the naming functions
Str(cs) == [t |-> "string", v |-> cs]
Undefined == [t |-> "undefined", v |-> <<>>]
Null == [t |-> "null", v |-> <<>>]
JsTrue == [t |-> "boolean", v |-> <<"t","r","u","e">>]
JsFalse == [t |-> "boolean", v |-> <<"f","a","l","s","e">>]

\* String(x)
ToStr(x) ==
  CASE x.t = "string" -> x.v
    [] x.t = "undefined" -> <<"u","n","d","e","f","i","n","e","d">>
    [] x.t = "null" -> <<"n","u","l","l">>
    [] x.t = "boolean" -> x.v
    [] OTHER -> <<"[","o","b","j","e","c","t"," ","O","b","j","e","c","t","]">>

\* x ?? ""
NullishToEmpty(x) == IF x.t \in {"undefined", "null"} THEN Str(<<>>) ELSE x

\* Boolean(x)
Truthy(x) ==
  CASE x.t = "string" -> x.v # <<>>
    [] x.t \in {"undefined", "null"} -> FALSE
    [] x.t = "boolean" -> x = JsTrue
    [] OTHER -> TRUE

\* ----------------------------------------------------- string primitives
\* a toLowerCase that leaves every character as it is
LowerCharIdentity(c) == c

\* String.prototype.toLowerCase, one character
LowerChar(c) ==
  IF c \in Upper THEN LowerSeq[CHOOSE i \in 1..26 : UpperSeq[i] = c] ELSE c

ToLowerCase(s) == [i \in 1..Len(s) |-> LowerChar(s[i])]

RECURSIVE TrimLeft(_)
TrimLeft(s) ==
  IF s # <<>> /\ Head(s) \in WhiteSpace THEN TrimLeft(Tail(s)) ELSE s

RECURSIVE TrimRight(_)
TrimRight(s) ==
  IF s # <<>> /\ s[Len(s)] \in WhiteSpace
  THEN TrimRight(SubSeq(s, 1, Len(s) - 1)) ELSE s

\* String.prototype.trim
Trim(s) == TrimRight(TrimLeft(s))

\* s.replace(/[^a-z0-9]+/g, "-")
RECURSIVE ReplaceNonAlNumRuns(_)
ReplaceNonAlNumRuns(s) ==
  IF s = <<>> THEN <<>>
  ELSE IF Head(s) \in AlNum THEN <<Head(s)>> \o ReplaceNonAlNumRuns(Tail(s))
  ELSE IF Len(s) >= 2 /\ s[2] \notin AlNum THEN ReplaceNonAlNumRuns(Tail(s))
  ELSE <<"-">> \o ReplaceNonAlNumRuns(Tail(s))

RECURSIVE StripLeadingHyphens(_)
StripLeadingHyphens(s) ==
  IF s # <<>> /\ Head(s) = "-" THEN StripLeadingHyphens(Tail(s)) ELSE s

RECURSIVE StripTrailingHyphens(_)
StripTrailingHyphens(s) ==
  IF s # <<>> /\ s[Len(s)] = "-"
  THEN StripTrailingHyphens(SubSeq(s, 1, Len(s) - 1)) ELSE s

\* the same replace with the -+$ alternative left out
StripLeadingOnly(s) == StripLeadingHyphens(s)

\* s.replace(/^-+|-+$/g, "")
StripEdgeHyphens(s) == StripTrailingHyphens(StripLeadingHyphens(s))

\* s.replace(/-+/g, "-")
RECURSIVE CollapseHyphens(_)
CollapseHyphens(s) ==
  IF s = <<>> THEN <<>>
  ELSE IF Head(s) = "-" /\ Len(s) >= 2 /\ s[2] = "-" THEN CollapseHyphens(Tail(s))
  ELSE <<Head(s)>> \o CollapseHyphens(Tail(s))

\* --------------------------------------------------------------- toKebab
\* the chain with the edge strip moved in front of the run replacement
KebabChainStripFirst(s) ==
  CollapseHyphens(ReplaceNonAlNumRuns(StripEdgeHyphens(ToLowerCase(Trim(s)))))

\* the chain of string methods both variants share
KebabChain(s) ==
  CollapseHyphens(StripEdgeHyphens(ReplaceNonAlNumRuns(ToLowerCase(Trim(s)))))

\* _naming.mjs: String(s).trim()...
toKebabNaming(x) == KebabChain(ToStr(x))

\* _templates.mjs: String(s ?? "").trim()...
toKebabTemplates(x) == KebabChain(ToStr(NullishToEmpty(x)))

\* toKebab of the module the caller imported
toKebab(variant, x) ==
  IF variant = "templates" THEN toKebabTemplates(x) ELSE toKebabNaming(x)

\* ------------------------------------------------------ validateRepoName
\* BAD_VERSION_TOKENS of _naming.mjs
BAD_VERSION_TOKENS_Naming ==
  { <<"v","1">>, <<"v","2">>, <<"v","3">>, <<"v","4">>, <<"v","5">>,
    <<"f","i","n","a","l">>, <<"l","a","t","e","s","t">>,
    <<"n","e","w">>, <<"o","l","d">> }

\* BAD_VERSION_TOKENS of _templates.mjs
BAD_VERSION_TOKENS_Templates ==
  { <<"v","1">>, <<"v","2">>, <<"v","3">>, <<"v","4">>, <<"v","5">>,
    <<"v","6">>, <<"v","7">>, <<"v","8">>, <<"v","9">>, <<"v","1","0">>,
    <<"f","i","n","a","l">>, <<"l","a","t","e","s","t">>,
    <<"n","e","w">>, <<"o","l","d">>,
    <<"r","e","l","e","a","s","e">>, <<"r","e","v">> }

\* the set the validator of the given module consults
BAD_VERSION_TOKENS(variant) ==
  IF variant = "templates" THEN BAD_VERSION_TOKENS_Templates
  ELSE BAD_VERSION_TOKENS_Naming

\* an entry of errors: the fixed text and, for a token message, the segment
\* interpolated into it
Msg(text, seg) == [text |-> text, seg |-> seg]

MsgCharset == Msg("Use only lowercase letters, numbers, and hyphens.", <<>>)
MsgForbidden == Msg("No uppercase, underscores, or spaces.", <<>>)
MsgDoubleHyphen == Msg("No double hyphens.", <<>>)
MsgEdgeHyphen == Msg("No leading/trailing hyphen.", <<>>)
MsgMinSegmentsNaming ==
  Msg("Use at least two segments, e.g. {project}-{description}.", <<>>)
MsgMinSegmentsTemplates ==
  Msg("Use at least two segments, e.g., {project}-{description}.", <<>>)
MsgMinSegments(variant) ==
  IF variant = "templates" THEN MsgMinSegmentsTemplates ELSE MsgMinSegmentsNaming
MsgBadToken(p) == Msg("Avoid versioning/placeholder token: ", p)
MsgVersionToken(p) == Msg("Avoid version token: ", p)

\* the same test with * in place of +, which lets the empty string through
MatchesCharsetStar(n) == \A i \in 1..Len(n) : n[i] \in AlNum \cup {"-"}

\* /^[a-z0-9-]+$/.test(n)
MatchesCharset(n) ==
  /\ n # <<>>
  /\ \A i \in 1..Len(n) : n[i] \in AlNum \cup {"-"}

\* the same test with a hyphen in the class: /[A-Z_ -]/
HasForbiddenCharOrHyphen(n) == \E i \in 1..Len(n) : n[i] \in Upper \cup {"_", " ", "-"}


\* /[A-Z_ ]/.test(n)
HasForbiddenChar(n) == \E i \in 1..Len(n) : n[i] \in Upper \cup {"_", " "}

\* n.includes("--")
HasDoubleHyphen(n) == \E i \in 1..(Len(n) - 1) : n[i] = "-" /\ n[i + 1] = "-"

\* n.startsWith("-") || n.endsWith("-")
HasEdgeHyphen(n) == n # <<>> /\ (n[1] = "-" \/ n[Len(n)] = "-")

\* n.split("-"): the pieces between hyphens, empty ones included
RECURSIVE SplitFrom(_, _)
SplitFrom(n, cur) ==
  IF n = <<>> THEN <<cur>>
  ELSE IF Head(n) = "-" THEN <<cur>> \o SplitFrom(Tail(n), <<>>)
  ELSE SplitFrom(Tail(n), Append(cur, Head(n)))

SplitHyphen(n) == SplitFrom(n, <<>>)

\* the same split with the filter left out
SegmentsUnfiltered(n) == SplitHyphen(n)


\* n.split("-").filter(Boolean)
Segments(n) == SelectSeq(SplitHyphen(n), LAMBDA p : p # <<>>)

\* the same test without the anchors: /v\d+/
IsVersionPatternUnanchored(p) ==
  \E i \in 1..(Len(p) - 1) : p[i] = "v" /\ p[i + 1] \in Digit


\* /^v\d+$/.test(p)
IsVersionPattern(p) ==
  /\ Len(p) >= 2
  /\ p[1] = "v"
  /\ \A i \in 2..Len(p) : p[i] \in Digit

\* the loop body with else-if between the two tests
TokenErrorsOfElseIf(bad, p) ==
  IF p \in bad THEN <<MsgBadToken(p)>>
  ELSE IF IsVersionPattern(p) THEN <<MsgVersionToken(p)>>
  ELSE <<>>

\* the body of the loop over parts, for one segment and the token set bad
TokenErrorsOf(bad, p) ==
  (IF p \in bad THEN <<MsgBadToken(p)>> ELSE <<>>)
  \o (IF IsVersionPattern(p) THEN <<MsgVersionToken(p)>> ELSE <<>>)

\* for (const p of parts) { ... }
RECURSIVE TokenErrors(_, _)
TokenErrors(bad, parts) ==
  IF parts = <<>> THEN <<>>
  ELSE TokenErrorsOf(bad, Head(parts)) \o TokenErrors(bad, Tail(parts))

\* the same test written parts.length <= 2
MinSegmentErrorsOffByOne(msg, parts) == IF Len(parts) <= 2 THEN <<msg>> ELSE <<>>

\* if (parts.length < 2) errors.push(msg)
MinSegmentErrors(msg, parts) == IF Len(parts) < 2 THEN <<msg>> ELSE <<>>

\* the four rules with a return after the first one that fires
WholeStringErrorsFirstOnly(n) ==
  IF ~MatchesCharset(n) THEN <<MsgCharset>>
  ELSE IF HasForbiddenChar(n) THEN <<MsgForbidden>>
  ELSE IF HasDoubleHyphen(n) THEN <<MsgDoubleHyphen>>
  ELSE IF HasEdgeHyphen(n) THEN <<MsgEdgeHyphen>>
  ELSE <<>>

\* the four whole-string rules, in source order
WholeStringErrors(n) ==
  (IF ~MatchesCharset(n) THEN <<MsgCharset>> ELSE <<>>)
  \o (IF HasForbiddenChar(n) THEN <<MsgForbidden>> ELSE <<>>)
  \o (IF HasDoubleHyphen(n) THEN <<MsgDoubleHyphen>> ELSE <<>>)
  \o (IF HasEdgeHyphen(n) THEN <<MsgEdgeHyphen>> ELSE <<>>)

\* errors as _naming.mjs accumulates them when the module's Set holds bad:
\* the token loop, then the segment count
ErrorsOfNamingIn(bad, n) ==
  WholeStringErrors(n)
  \o TokenErrors(bad, Segments(n))
  \o MinSegmentErrors(MsgMinSegmentsNaming, Segments(n))

\* errors as _naming.mjs accumulates them
ErrorsOfNaming(n) == ErrorsOfNamingIn(BAD_VERSION_TOKENS_Naming, n)

\* errors as _templates.mjs accumulates them when the module's Set holds
\* bad: the segment count, then the token loop
ErrorsOfTemplatesIn(bad, n) ==
  WholeStringErrors(n)
  \o MinSegmentErrors(MsgMinSegmentsTemplates, Segments(n))
  \o TokenErrors(bad, Segments(n))

\* errors as _templates.mjs accumulates them
ErrorsOfTemplates(n) == ErrorsOfTemplatesIn(BAD_VERSION_TOKENS_Templates, n)

\* the same call with add in place of has
TokensAfterHasAdding(bad, p) == bad \cup {p}

\* BAD_VERSION_TOKENS.has(p) leaves the Set as it is
TokensAfterHas(bad, p) == bad

\* the Set after the loop over parts
RECURSIVE TokensAfterLoop(_, _)
TokensAfterLoop(bad, parts) ==
  IF parts = <<>> THEN bad
  ELSE TokensAfterLoop(TokensAfterHas(bad, Head(parts)), Tail(parts))

\* the same return with ok: errors.length <= 1
VerdictOkUpToOne(errors) ==
  [threw |-> FALSE, ok |-> Len(errors) <= 1, errors |-> errors]

\* return { ok: errors.length === 0, errors }
Verdict(errors) == [threw |-> FALSE, ok |-> Len(errors) = 0, errors |-> errors]

\* a call that ends in a TypeError returns nothing
Threw == [threw |-> TRUE, ok |-> FALSE, errors |-> <<>>]

\* _naming.mjs: name.includes(...) is called on the argument as given and
\* throws a TypeError unless it is a string
validateRepoNameNaming(x) ==
  IF x.t = "string" THEN Verdict(ErrorsOfNaming(x.v)) ELSE Threw

\* _templates.mjs: const n = String(name ?? "")
validateRepoNameTemplates(x) == Verdict(ErrorsOfTemplates(ToStr(NullishToEmpty(x))))

\* validateRepoName of the module the caller imported
validateRepoName(variant, x) ==
  IF variant = "templates" THEN validateRepoNameTemplates(x)
  ELSE validateRepoNameNaming(x)

\* --------------------------------------------------------- buildRepoName
\* array.join("-") over elements that survived filter(Boolean)
RECURSIVE JoinHyphen(_)
JoinHyphen(parts) ==
  IF parts = <<>> THEN <<>>
  ELSE IF Len(parts) = 1 THEN ToStr(parts[1])
  ELSE ToStr(Head(parts)) \o <<"-">> \o JoinHyphen(Tail(parts))

\* parts.filter(Boolean)
FilterTruthy(parts) == SelectSeq(parts, Truthy)

\* the chain with the service test in front of the team test
PatternPartsServiceFirst(o) ==
  IF Truthy(o.service) \/ Truthy(o.type) THEN <<o.project, o.service, o.type>>
  ELSE IF Truthy(o.team) \/ Truthy(o.component) THEN <<o.team, o.component>>
  ELSE <<o.project, o.description>>

\* the if / else-if chain that selects the pattern (_templates.mjs:165-171)
PatternParts(o) ==
  IF Truthy(o.team) \/ Truthy(o.component) THEN <<o.team, o.component>>
  ELSE IF Truthy(o.service) \/ Truthy(o.type) THEN <<o.project, o.service, o.type>>
  ELSE <<o.project, o.description>>

\* const base = toKebab(parts.filter(Boolean).join("-"))
BaseName(o) == toKebabTemplates(Str(JoinHyphen(FilterTruthy(PatternParts(o)))))

\* the same line without the second toKebab
WithPrefixRaw(prefix, base) ==
  IF Truthy(prefix) THEN ToStr(prefix) \o <<"-">> \o base ELSE base

\* const full = prefix ? toKebab(`${prefix}-${base}`) : base
WithPrefix(prefix, base) ==
  IF Truthy(prefix) THEN toKebabTemplates(Str(ToStr(prefix) \o <<"-">> \o base))
  ELSE base

\* a builder that lets the prefix apply to raw as well
buildRepoNameTemplatesPrefixedRaw(o) ==
  IF Truthy(o.raw) THEN WithPrefix(o.prefix, toKebabTemplates(o.raw))
  ELSE WithPrefix(o.prefix, BaseName(o))

\* _templates.mjs: buildRepoName({ prefix, project, ..., raw })
buildRepoNameTemplates(o) ==
  IF Truthy(o.raw) THEN toKebabTemplates(o.raw)
  ELSE WithPrefix(o.prefix, BaseName(o))

\* an object, as String() and Boolean() see it
ObjectValue == [t |-> "object", v |-> <<>>]

\* _naming.mjs: buildRepoName(...parts), the rest parameter holding args
buildRepoNameNaming(args) == toKebabNaming(Str(JoinHyphen(FilterTruthy(args))))

\* buildRepoName({ raw: ..., prefix: ..., ... }): one argument, the intent
\* object, passed to buildRepoName of the module the caller imported
buildRepoName(variant, o) ==
  IF variant = "templates" THEN buildRepoNameTemplates(o)
  ELSE buildRepoNameNaming(<<ObjectValue>>)

\* ------------------------------------------------------------ the inputs
\* fragments the input strings are concatenated from
NamePieces ==
  { <<"-">>, <<"m","y">>, <<"a","p","p">>, <<"M","y">>, <<"_">>, <<" ">>,
    <<".">>, <<"v">>, <<"1">>, <<"f","i","n","a","l">>,
    <<"r","e","l","e","a","s","e">> }

RECURSIVE Flatten(_)
Flatten(ps) == IF ps = <<>> THEN <<>> ELSE Head(ps) \o Flatten(Tail(ps))

PieceStrings ==
  { Flatten(ps) : ps \in UNION { [1..k -> NamePieces] : k \in 0..MaxPieces } }

\* the names of naming.test.mjs, README.md and TROUBLESHOOTING.md
SampleStrings ==
  { <<"m","y","-","a","w","e","s","o","m","e","-","p","r","o","j","e","c","t">>,
    <<"m","y","-","a","p","p","-","v","1">>,
    <<"m","y","-","a","p","p","-","v","2">>,
    <<"m","y","-","a","p","p","-","l","a","t","e","s","t">>,
    <<"m","y","-","a","p","p","-","r","e","v">>,
    <<"m","y","-","a","p","p","-","v","1","0">>,
    <<"m","y","-","a","p","p","-","v","6">>,
    <<"m","y","-","a","p","p","-","v","4","2">>,
    <<"m","y","-","n","e","w","-","a","p","p">>,
    <<"o","l","d","-","a","p","p">>,
    <<"-","M","y","-","-","a","p","p">>,
    <<"M","y","A","p","p">>,
    <<"m","y","-","n","e","w","s","l","e","t","t","e","r">>,
    <<"r","e","v","2","-","a","p","i">>,
    <<"v","1","a","-","a","p","p">>,
    <<"v","1","-","v","1">>,
    <<"m","y","-","-","a","p","p">>,
    <<"m","y","-","c","o","o","l","-","p","r","o","j","e","c","t">>,
    <<" ","\t","M","y"," ","C","o","o","l","_","_","A","p","p","!"," ">> }

InputStrings == PieceStrings \cup SampleStrings

\* what a caller may pass where a string is expected
InputValues == { Str(s) : s \in InputStrings } \cup {Undefined, Null}

\* the values each flag of new-project.mjs takes in the model
PrefixValues ==
  { Undefined, Str(<<>>), Str(<<"f","r","o","n","t","e","n","d">>),
    Str(<<"W","e","b","_">>), Str(<<"_">>), Str(<<"m","y","-","a","p","p">>) }
ProjectValues ==
  { Undefined, Str(<<>>), Str(<<"w","e","b","s","i","t","e">>),
    Str(<<"e","c","o","m">>) }
DescriptionValues ==
  { Undefined, Str(<<"f","r","o","n","t","e","n","d">>),
    Str(<<"F","r","o","n","t"," ","E","n","d">>) }
ServiceValues == { Undefined, Str(<<"o","r","d","e","r">>) }
TypeValues == { Undefined, Str(<<>>), Str(<<"a","p","i">>) }
TeamValues == { Undefined, Str(<<>>), Str(<<"d","a","t","a">>) }
ComponentValues ==
  { Undefined,
    Str(<<"a","n","a","l","y","t","i","c","s","-","m","o","d","u","l","e">>) }
RawValues ==
  { Undefined, Str(<<>>), Str(<<"M","y","A","p","p">>),
    Str(<<"m","y","-","c","o","o","l","-","p","r","o","j","e","c","t">>) }

\* NamingIntent: the object literal of new-project.mjs:558-567
Intents ==
  [ prefix : PrefixValues, project : ProjectValues,
    description : DescriptionValues, service : ServiceValues,
    type : TypeValues, team : TeamValues, component : ComponentValues,
    raw : RawValues ]

NoIntent ==
  [ prefix |-> Undefined, project |-> Undefined, description |-> Undefined,
    service |-> Undefined, type |-> Undefined, team |-> Undefined,
    component |-> Undefined, raw |-> Undefined ]

NoVerdict == [threw |-> FALSE, ok |-> FALSE, errors |-> <<>>]

\* ------------------------------------------------------------- the calls
VARIABLES
  pc,       \* which call has returned: "start", "kebab", "kebab2",
            \* "validated", "built", "checked"
  variant,  \* the module the call went to
  arg,      \* the value passed to toKebab / validateRepoName
  intent,   \* the object passed to buildRepoName
  retStr,   \* the string toKebab / buildRepoName returned
  retVal,   \* the { ok, errors } validateRepoName returned
  env,      \* new-project.mjs: the flags and the machine main runs on
  ran,      \* new-project.mjs: the commands and file writes executed so far
  printed,  \* new-project.mjs: the lines written with console.error
  exitCode, \* new-project.mjs: the process exit status, -1 while running
  cfgFile,  \* _config.mjs: .rapid-dev.json in the working directory
  config,   \* new-project.mjs: what loadConfig() returned
  script,   \* bootstrap: which of the two bootstrap scripts runs
  mgr,      \* bootstrap: the kind detectPkgMgr() returned
  refresh,  \* bootstrap: whether a fresh install shows up on this PATH
  found,    \* bootstrap: the commands exists() finds
  seen,     \* bootstrap: per tool, whether its command was found when its step began
  task,     \* bootstrap: per tool, how far its ensure step is
  queue,    \* bootstrap: per tool, the commands its step has yet to run
  did,      \* bootstrap: per tool, the commands its step has run
  phase,    \* bootstrap: idle, running, crashed or done
  tokenSet, \* per naming module, the contents of its BAD_VERSION_TOKENS Set
  log,      \* the calls the callers of the naming modules have made
  ncalls,   \* how many calls they have made
  argv,     \* the command line after the script name
  argi,     \* parseArgs: the loop index i, counted from 1
  args,     \* parseArgs: the object being filled, as key/value entries
  ppc,      \* parseArgs: idle, loop or returned
  dpc,      \* deploy.mjs: how far the generated script is
  gcpEnv,   \* deploy.mjs: process.env.GCP_PROJECT, "" when unset
  opts,     \* deploy.mjs: the constants target, project, dryRun
  executed, \* deploy.mjs: the commands handed to execSync
  wouldRun, \* deploy.mjs: the commands logged as "Would run (dry-run)"
  dstatus   \* deploy.mjs: the exit status, -1 while running

vars ==
  <<pc, variant, arg, intent, retStr, retVal, env, ran, printed, exitCode,
    cfgFile, config, script, mgr, refresh, found, seen, task, queue, did,
    phase, tokenSet, log, ncalls, argv, argi, args, ppc, dpc, gcpEnv, opts,
    executed, wouldRun, dstatus>>

\* what belongs to a run of the generated functions/api/scripts/deploy.mjs
deployVars == <<dpc, gcpEnv, opts, executed, wouldRun, dstatus>>

\* the constants before the script has read its arguments
NoOpts == [target |-> <<>>, project |-> <<>>, dryRun |-> JsFalse]

\* deploy.mjs is not running
NoDeploy ==
  /\ dpc = "idle" /\ gcpEnv = <<>> /\ opts = NoOpts
  /\ executed = <<>> /\ wouldRun = <<>> /\ dstatus = -1

\* what belongs to a call of parseArgs
argVars == <<argv, argi, args, ppc>>

\* parseArgs is not being called
NoParse == argv = <<>> /\ argi = 1 /\ args = {} /\ ppc = "idle"

\* what belongs to the callers of the naming modules
callVars == <<tokenSet, log, ncalls>>

\* the naming modules as loaded, nobody calling yet
NoCalls ==
  /\ tokenSet = [m \in Variants |-> BAD_VERSION_TOKENS(m)]
  /\ log = {}
  /\ ncalls = 0

\* what belongs to the naming functions
namingVars == <<pc, variant, arg, intent, retStr, retVal>>

\* what belongs to a run of a bootstrap script
bootVars == <<script, mgr, refresh, found, seen, task, queue, did, phase>>

\* the tools of _tooling.config.mjs, by key
Tools == {"git", "node", "gh", "netlify", "gcloud", "flutter", "python", "pipx", "aider"}

\* no bootstrap script is running
BootIdle ==
  /\ script = "none" /\ mgr = "none" /\ refresh = FALSE /\ found = {}
  /\ seen = [t \in Tools |-> "unchecked"]
  /\ task = [t \in Tools |-> "todo"]
  /\ queue = [t \in Tools |-> <<>>]
  /\ did = [t \in Tools |-> <<>>]
  /\ phase = "idle"

\* what belongs to a run of new-project.mjs
mainVars == <<env, ran, printed, exitCode, cfgFile, config>>

\* ------------------------------------------------------------ _config.mjs
\* the gcp object of a configuration, and its absence
GcpObject(project, region) ==
  [t |-> "object", project |-> project, region |-> region]

NoGcp == [t |-> "undefined", project |-> Undefined, region |-> Undefined]

\* the defaults object of a configuration; a key that is missing reads as
\* undefined
DefaultsObject(org, private, netlify, gcp) ==
  [t |-> "object", org |-> org, private |-> private, netlify |-> netlify,
   gcp |-> gcp]

\* a defaults key that is missing ("undefined") or holds null
NoDefaults(t) ==
  [t |-> t, org |-> Undefined, private |-> Undefined, netlify |-> Undefined,
   gcp |-> NoGcp]

\* a configuration object
ConfigObject(defaults) == [t |-> "object", defaults |-> defaults]

\* JSON.parse gave null
JsonNull == [t |-> "null", defaults |-> NoDefaults("undefined")]

\* main has not called loadConfig yet
NoConfig == [t |-> "undefined", defaults |-> NoDefaults("undefined")]

\* getDefaultConfig()
getDefaultConfig ==
  ConfigObject(DefaultsObject(Str(<<>>), JsFalse, JsFalse,
    GcpObject(Str(<<>>), Str(<<"u","s","-","e","a","s","t","1">>))))

\* .rapid-dev.json: absent, not parsable, or holding a JSON value
FileAbsent == [state |-> "absent", json |-> JsonNull]
FileMalformed == [state |-> "malformed", json |-> JsonNull]
FileJson(value) == [state |-> "json", json |-> value]

\* { ...base, ...user }: every own key of user replaces the key of base
Spread(base, user) ==
  IF user.t = "object" /\ user.defaults.t # "undefined"
  THEN [base EXCEPT !.defaults = user.defaults]
  ELSE base

\* loadConfig()
loadConfig(file) ==
  IF file.state = "json"
  THEN Spread(getDefaultConfig, file.json)
  ELSE getDefaultConfig

\* the files of the runs in the model
ConfigFiles ==
  LET acme == Str(<<"a","c","m","e">>)
      region == Str(<<"e","u">>)
  IN { FileAbsent,
       FileMalformed,
       FileJson(JsonNull),
       FileJson(ConfigObject(NoDefaults("undefined"))),
       FileJson(ConfigObject(NoDefaults("null"))),
       FileJson(ConfigObject(DefaultsObject(acme, JsTrue, JsTrue,
                                            GcpObject(acme, region)))),
       FileJson(ConfigObject(DefaultsObject(acme, Undefined, Undefined, NoGcp))),
       FileJson(ConfigObject(DefaultsObject(Undefined, Undefined, JsTrue, NoGcp))) }

\* no run of new-project.mjs is under way
NoEnv ==
  [ missingCli |-> FALSE, targetNonEmpty |-> FALSE, cloneMissing |-> FALSE,
    win32 |-> FALSE, skipPush |-> FALSE, netlify |-> FALSE,
    netlifyName |-> FALSE ]

Init ==
  /\ pc = "start"
  /\ variant = "none"
  /\ retStr = <<>>
  /\ retVal = NoVerdict
  /\ env = NoEnv /\ ran = <<>> /\ printed = <<>> /\ exitCode = -1
  /\ cfgFile = FileAbsent /\ config = NoConfig
  /\ BootIdle
  /\ NoCalls
  /\ NoParse
  /\ NoDeploy
  /\ \/ arg \in InputValues /\ intent = NoIntent
     \/ arg = Undefined /\ intent \in Intents \ {NoIntent}

\* toKebab(arg)
CallToKebab(m) ==
  /\ pc = "start"
  /\ intent = NoIntent
  /\ pc' = "kebab"
  /\ variant' = m
  /\ retStr' = toKebab(m, arg)
  /\ UNCHANGED <<arg, intent, retVal>>
  /\ UNCHANGED mainVars
  /\ UNCHANGED bootVars
  /\ UNCHANGED callVars
  /\ UNCHANGED argVars
  /\ UNCHANGED deployVars

\* toKebab(toKebab(arg)): the previous result is the next argument
CallToKebabAgain ==
  /\ pc = "kebab"
  /\ pc' = "kebab2"
  /\ arg' = Str(retStr)
  /\ retStr' = toKebab(variant, Str(retStr))
  /\ UNCHANGED <<variant, intent, retVal>>
  /\ UNCHANGED mainVars
  /\ UNCHANGED bootVars
  /\ UNCHANGED callVars
  /\ UNCHANGED argVars
  /\ UNCHANGED deployVars

\* validateRepoName(arg)
CallValidate(m) ==
  /\ pc = "start"
  /\ intent = NoIntent
  /\ pc' = "validated"
  /\ variant' = m
  /\ retVal' = validateRepoName(m, arg)
  /\ UNCHANGED <<arg, intent, retStr>>
  /\ UNCHANGED mainVars
  /\ UNCHANGED bootVars
  /\ UNCHANGED callVars
  /\ UNCHANGED argVars
  /\ UNCHANGED deployVars

\* const repoName = buildRepoName({ ... }); run with no naming flag at all,
\* every field of the object is undefined
CallBuild(m) ==
  /\ pc = "start"
  /\ intent # NoIntent \/ arg = Undefined
  /\ pc' = "built"
  /\ variant' = m
  /\ retStr' = buildRepoName(m, intent)
  /\ UNCHANGED <<arg, intent, retVal>>
  /\ UNCHANGED mainVars
  /\ UNCHANGED bootVars
  /\ UNCHANGED callVars
  /\ UNCHANGED argVars
  /\ UNCHANGED deployVars

\* const v = validateRepoName(repoName)
CallValidateBuilt ==
  /\ pc = "built"
  /\ pc' = "checked"
  /\ arg' = Str(retStr)
  /\ retVal' = validateRepoName(variant, Str(retStr))
  /\ UNCHANGED <<variant, intent, retStr>>
  /\ UNCHANGED mainVars
  /\ UNCHANGED bootVars
  /\ UNCHANGED callVars
  /\ UNCHANGED argVars
  /\ UNCHANGED deployVars

Next ==
  \/ \E m \in Variants : CallToKebab(m)
  \/ CallToKebabAgain
  \/ \E m \in Variants : CallValidate(m)
  \/ \E m \in Variants : CallBuild(m)
  \/ CallValidateBuilt

Spec == Init /\ [][Next]_vars

\* ------------------------------------------------- new-project.mjs, main
\* the naming flags of the runs of main in the model
MainIntents ==
  { NoIntent,
    [NoIntent EXCEPT !.project = Str(<<"w","e","b","s","i","t","e">>),
                     !.description = Str(<<"f","r","o","n","t","e","n","d">>)],
    [NoIntent EXCEPT !.project = Str(<<"e","c","o","m">>)],
    [NoIntent EXCEPT !.raw = Str(<<"M","y","A","p","p">>)],
    [NoIntent EXCEPT !.raw = Str(<<"m","y","-","a","p","p","-","v","1">>)],
    [NoIntent EXCEPT !.raw = Str(<<"m","y","-","c","o","o","l","-","p","r","o","j","e","c","t">>)],
    [NoIntent EXCEPT !.team = Str(<<"d","a","t","a">>),
                     !.component = Str(<<"f","i","n","a","l">>)] }

\* the other flags and the state of the machine: one of git, gh, flutter,
\* node, npm missing (netlify and gcloud are there when they are wanted),
\* the target directory not empty, the clone not where gh should put it,
\* the platform, --skipPush, --netlify, --netlify-name
MainEnvs ==
  [ missingCli : BOOLEAN, targetNonEmpty : BOOLEAN, cloneMissing : BOOLEAN,
    win32 : BOOLEAN, skipPush : BOOLEAN, netlify : BOOLEAN,
    netlifyName : BOOLEAN ]

\* a line written with console.error
Line(kind, msg) == [kind |-> kind, msg |-> msg]

\* fail(msg): console.error(`\nERROR: ${msg}`)
FailLine(text) == Line("ERROR", Msg(text, <<>>))

\* console.error(`\nRepo name "${repoName}" violates rules:`) and, for each
\* e of v.errors, console.error(`- ${e}`)
ViolationLines(repoName, errors) ==
  <<Line("violates", Msg("Repo name violates rules:", repoName))>>
  \o [i \in 1..Len(errors) |-> Line("-", errors[i])]

\* a guard that lets every name through
NameRejectedNever(v) == FALSE

\* if (!v.ok)
NameRejected(v) == ~v.ok

InitMain ==
  /\ pc = "main"
  /\ variant \in Variants
  /\ intent \in MainIntents
  /\ env \in MainEnvs
  /\ arg = Undefined
  /\ retStr = <<>>
  /\ retVal = NoVerdict
  /\ ran = <<>> /\ printed = <<>> /\ exitCode = -1
  /\ cfgFile \in ConfigFiles
  /\ config = NoConfig
  /\ BootIdle
  /\ NoCalls
  /\ NoParse
  /\ NoDeploy

\* process.exit(1) after fail(text)
Fail(text) ==
  /\ printed' = Append(printed, FailLine(text))
  /\ exitCode' = 1
  /\ pc' = "exit"

\* an exception nobody catches ends the process with status 1
Crash ==
  /\ exitCode' = 1
  /\ pc' = "exit"
  /\ UNCHANGED printed

\* run(cmd): execSync either returns or throws
Run(from, cmd, to) ==
  /\ pc = from
  /\ ran' = Append(ran, cmd)
  /\ \/ pc' = to /\ UNCHANGED <<printed, exitCode>>
     \/ Crash
  /\ UNCHANGED <<variant, arg, intent, retStr, retVal, env, cfgFile, config>>
  /\ UNCHANGED bootVars
  /\ UNCHANGED callVars
  /\ UNCHANGED argVars
  /\ UNCHANGED deployVars

\* console.error(`Warning: Could not parse ...`)
WarningLine == Line("Warning", Msg("Could not parse .rapid-dev.json. Using default configuration.", <<>>))

\* const config = loadConfig()
MainLoadConfig ==
  /\ pc = "main"
  /\ config' = loadConfig(cfgFile)
  /\ printed' = IF cfgFile.state = "malformed"
                THEN Append(printed, WarningLine) ELSE printed
  /\ pc' = "clis"
  /\ UNCHANGED <<variant, arg, intent, retStr, retVal, env, cfgFile, ran, exitCode>>
  /\ UNCHANGED bootVars
  /\ UNCHANGED callVars
  /\ UNCHANGED argVars
  /\ UNCHANGED deployVars

\* const wantNetlify = args.netlify || config.defaults.netlify
wantNetlify == env.netlify \/ Truthy(config.defaults.netlify)

\* requireCmd("git") ... requireCmd("npm"), then config.defaults.netlify is
\* read: a TypeError when the file set defaults to null
MainRequireClis ==
  /\ pc = "clis"
  /\ IF env.missingCli
     THEN Fail("Missing required CLI. Run scripts/bootstrap.mjs first.")
     ELSE IF config.defaults.t = "null" THEN Crash
     ELSE pc' = "name" /\ UNCHANGED <<printed, exitCode>>
  /\ UNCHANGED <<variant, arg, intent, retStr, retVal, env, cfgFile, config, ran>>
  /\ UNCHANGED bootVars
  /\ UNCHANGED callVars
  /\ UNCHANGED argVars
  /\ UNCHANGED deployVars

\* const repoName = buildRepoName({ raw: args.repo, ... })
MainBuildName ==
  /\ pc = "name"
  /\ retStr' = buildRepoName(variant, intent)
  /\ pc' = "validate"
  /\ UNCHANGED <<variant, arg, intent, retVal, mainVars>>
  /\ UNCHANGED bootVars
  /\ UNCHANGED callVars
  /\ UNCHANGED argVars
  /\ UNCHANGED deployVars

\* const v = validateRepoName(repoName)
MainValidate ==
  /\ pc = "validate"
  /\ arg' = Str(retStr)
  /\ retVal' = validateRepoName(variant, Str(retStr))
  /\ pc' = "verdict"
  /\ UNCHANGED <<variant, intent, retStr, mainVars>>
  /\ UNCHANGED bootVars
  /\ UNCHANGED callVars
  /\ UNCHANGED argVars
  /\ UNCHANGED deployVars

\* if (!v.ok) { console.error(...); for (...) console.error(...);
\* process.exit(1) }
MainReject ==
  /\ pc = "verdict"
  /\ NameRejected(retVal)
  /\ printed' = printed \o ViolationLines(retStr, retVal.errors)
  /\ exitCode' = 1
  /\ pc' = "exit"
  /\ UNCHANGED <<variant, arg, intent, retStr, retVal, env, cfgFile, config, ran>>
  /\ UNCHANGED bootVars
  /\ UNCHANGED callVars
  /\ UNCHANGED argVars
  /\ UNCHANGED deployVars

\* the name passed: the target directory must be absent or empty
MainCheckTarget ==
  /\ pc = "verdict"
  /\ ~NameRejected(retVal)
  /\ IF env.targetNonEmpty
     THEN Fail("Target directory not empty")
     ELSE pc' = "create" /\ UNCHANGED <<printed, exitCode>>
  /\ UNCHANGED <<variant, arg, intent, retStr, retVal, env, cfgFile, config, ran>>
  /\ UNCHANGED bootVars
  /\ UNCHANGED callVars
  /\ UNCHANGED argVars
  /\ UNCHANGED deployVars

\* run(`gh repo create ${ghName} --${visibility} --clone`)
MainCreateRepo == Run("create", "gh repo create", "cloned")

\* the cloned folder must exist; then rename, chdir and the base dirs
MainEnterClone ==
  /\ pc = "cloned"
  /\ IF env.cloneMissing
     THEN Fail("Expected cloned folder was not created. Check gh CLI output.")
          /\ UNCHANGED ran
     ELSE /\ pc' = "flutter"
          /\ ran' = Append(ran, "ensureDir")
          /\ UNCHANGED <<printed, exitCode>>
  /\ UNCHANGED <<variant, arg, intent, retStr, retVal, env, cfgFile, config>>
  /\ UNCHANGED bootVars
  /\ UNCHANGED callVars
  /\ UNCHANGED argVars
  /\ UNCHANGED deployVars

\* run(`flutter create apps/client --platforms=android,ios,web`)
MainFlutterCreate == Run("flutter", "flutter create", "files")

\* the writeFile calls: the API scaffold, the root config files, the
\* helper scripts
MainWriteFiles ==
  /\ pc = "files"
  /\ ran' = Append(ran, "writeFile")
  /\ pc' = IF env.win32 THEN "install" ELSE "chmod"
  /\ UNCHANGED <<variant, arg, intent, retStr, retVal, env, cfgFile, config, printed, exitCode>>
  /\ UNCHANGED bootVars
  /\ UNCHANGED callVars
  /\ UNCHANGED argVars
  /\ UNCHANGED deployVars

\* try { run("chmod +x ...") } catch { }
MainChmod ==
  /\ pc = "chmod"
  /\ ran' = Append(ran, "chmod +x")
  /\ pc' = "install"
  /\ UNCHANGED <<variant, arg, intent, retStr, retVal, env, cfgFile, config, printed, exitCode>>
  /\ UNCHANGED bootVars
  /\ UNCHANGED callVars
  /\ UNCHANGED argVars
  /\ UNCHANGED deployVars

\* run(`cd functions/api && npm install`)
MainNpmInstall == Run("install", "npm install", "build")

\* run(`cd functions/api && npm run build`)
MainNpmBuild == Run("build", "npm run build", "add")

\* run(`git add -A`)
MainGitAdd == Run("add", "git add", "commit")

\* run(`git commit -m "chore: initial scaffold"`)
MainGitCommit == Run("commit", "git commit", IF env.skipPush THEN "netlify" ELSE "push")

\* if (!args.skipPush) run(`git push -u origin main`)
MainGitPush == Run("push", "git push", "netlify")

\* if (wantNetlify) { const nlName = args["netlify-name"] ? `--name
\* ${nlName}` : ""; ... }: with --netlify-name the initializer reads nlName
\* before it is initialized and throws a ReferenceError
MainNetlifyName ==
  /\ pc = "netlify"
  /\ IF ~wantNetlify THEN pc' = "summary" /\ UNCHANGED <<printed, exitCode>>
     ELSE IF env.netlifyName THEN Crash
     ELSE pc' = "sites" /\ UNCHANGED <<printed, exitCode>>
  /\ UNCHANGED <<variant, arg, intent, retStr, retVal, env, cfgFile, config, ran>>
  /\ UNCHANGED bootVars
  /\ UNCHANGED callVars
  /\ UNCHANGED argVars
  /\ UNCHANGED deployVars

\* run(`netlify sites:create ${nlName}`) with nlName = ""
MainNetlifyCreate == Run("sites", "netlify sites:create", "link")

\* run(`netlify link`)
MainNetlifyLink == Run("link", "netlify link", "status")

\* run(`netlify status`)
MainNetlifyStatus == Run("status", "netlify status", "summary")

\* the closing console.log lines; main returns and the process ends
MainSummary ==
  /\ pc = "summary"
  /\ exitCode' = 0
  /\ pc' = "exit"
  /\ UNCHANGED <<variant, arg, intent, retStr, retVal, env, cfgFile, config, ran, printed>>
  /\ UNCHANGED bootVars
  /\ UNCHANGED callVars
  /\ UNCHANGED argVars
  /\ UNCHANGED deployVars

NextMain ==
  \/ MainLoadConfig
  \/ MainRequireClis
  \/ MainBuildName
  \/ MainValidate
  \/ MainReject
  \/ MainCheckTarget
  \/ MainCreateRepo
  \/ MainEnterClone
  \/ MainFlutterCreate
  \/ MainWriteFiles
  \/ MainChmod
  \/ MainNpmInstall
  \/ MainNpmBuild
  \/ MainGitAdd
  \/ MainGitCommit
  \/ MainGitPush
  \/ MainNetlifyName
  \/ MainNetlifyCreate
  \/ MainNetlifyLink
  \/ MainNetlifyStatus
  \/ MainSummary

SpecMain == InitMain /\ [][NextMain]_vars

\* ------------------------------------- bootstrap.mjs and its sync variant
\* the two bootstrap scripts: scripts/bootstrap.mjs, and the variant that
\* reads _tooling.config.mjs
Scripts == {"bootstrap.mjs", "part_001"}

\* the kinds detectPkgMgr() returns
PkgMgrs == {"winget", "choco", "brew", "apt", "none"}

\* the commands exists() is asked about
Commands == Tools \cup {"npm"}

\* the tools array of _tooling.config.mjs, by key
tools == <<"git", "node", "gh", "netlify", "gcloud", "flutter", "pipx", "python", "aider">>

\* const order = [...]
order == <<"git", "node", "gh", "netlify", "gcloud", "flutter", "python", "pipx", "aider">>

\* order.indexOf(k)
OrderIndexOf(k) == CHOOSE i \in 1..Len(order) : order[i] = k

\* [...tools].sort((a, b) => order.indexOf(a.key) - order.indexOf(b.key))
RECURSIVE SortByOrder(_)
SortByOrder(s) ==
  IF s = <<>> THEN <<>>
  ELSE LET k == Head(s)
           rest == SortByOrder(Tail(s))
           Before(x) == OrderIndexOf(x) < OrderIndexOf(k)
           NotBefore(x) == ~Before(x)
       IN SelectSeq(rest, Before) \o <<k>> \o SelectSeq(rest, NotBefore)

\* const ordered = ...
ordered == SortByOrder(tools)

\* the six steps bootstrap.mjs hands to Promise.all
Parallel == {"git", "node", "gh", "netlify", "gcloud", "flutter"}

\* a shell command: what it does, through which program, to which package,
\* and whether its failure is caught where it is run
Command(verb, via, pkg, caught) ==
  [verb |-> verb, via |-> via, pkg |-> pkg, caught |-> caught]

\* what an ensure step decides after its checks: to throw, or to run these
\* commands in this order
Throws == [throws |-> TRUE, cmds |-> <<>>]
Runs(cmds) == [throws |-> FALSE, cmds |-> cmds]

\* bootstrap.mjs: ensureWinget(cmd, id)
ensureWinget(t, f) ==
  IF t \notin f
  THEN Runs(<<Command("install", "winget", t, FALSE)>>)
  ELSE Runs(<<Command("upgrade", "winget", t, TRUE)>>)

\* bootstrap.mjs: ensureChoco(cmd, pkg)
ensureChoco(t, f) ==
  IF t \notin f
  THEN Runs(<<Command("install", "choco", t, FALSE)>>)
  ELSE Runs(<<Command("upgrade", "choco", t, FALSE)>>)

\* bootstrap.mjs: ensurePkg(mgr, cmd, { wingetId, chocoPkg })
ensurePkg(m, t, f) ==
  IF m = "winget" THEN ensureWinget(t, f)
  ELSE IF m = "choco" THEN ensureChoco(t, f)
  ELSE Throws

\* bootstrap.mjs: ensureNpmGlobal("netlify", "netlify-cli")
ensureNpmGlobal(f) ==
  IF "npm" \notin f THEN Throws
  ELSE IF "netlify" \notin f
  THEN Runs(<<Command("install", "npm", "netlify-cli", FALSE)>>)
  ELSE Runs(<<Command("upgrade", "npm", "netlify-cli", FALSE)>>)

\* bootstrap.mjs: ensureFlutter(mgr)
ensureFlutter(m, f) ==
  IF "flutter" \notin f
  THEN IF m = "winget" THEN Runs(<<Command("install", "winget", "flutter", FALSE)>>)
       ELSE IF m = "choco" THEN Runs(<<Command("install", "choco", "flutter", FALSE)>>)
       ELSE Throws
  ELSE Runs(<<Command("upgrade", "flutter", "flutter", FALSE)>>)

\* bootstrap.mjs: ensurePythonAndPipx(mgr), its python half
ensurePython(f) ==
  IF "python" \notin f
  THEN Runs(<<Command("install", "winget", "python", TRUE)>>)
  ELSE Runs(<<Command("install --upgrade", "pip", "pip", TRUE)>>)

\* bootstrap.mjs: ensurePythonAndPipx(mgr), its pipx half
ensurePipx(f) ==
  IF "pipx" \notin f
  THEN Runs(<<Command("install", "winget", "pipx", TRUE),
              Command("install", "pipx", "pipx", FALSE)>>)
  ELSE Runs(<<Command("--version", "pipx", "pipx", TRUE)>>)

\* bootstrap.mjs: ensureAider(); listed is what `pipx list | findstr`
\* answered
ensureAider(f, listed) ==
  IF "pipx" \in f
  THEN IF listed THEN Runs(<<Command("upgrade", "pipx", "aider-chat", FALSE)>>)
       ELSE Runs(<<Command("install", "pipx", "aider-chat", FALSE)>>)
  ELSE IF "python" \in f
  THEN Runs(<<Command("install --upgrade", "pip", "aider-chat", FALSE)>>)
  ELSE Runs(<<>>)

\* part_001: installOrUpdateWithMgr(mgr, tool); every tool that gets here
\* has its winget id and its choco package
installOrUpdateWithMgr(m, t, f) ==
  IF m = "winget"
  THEN IF t \notin f
       THEN Runs(<<Command("install", "winget", t, FALSE)>>)
       ELSE Runs(<<Command("upgrade", "winget", t, TRUE)>>)
  ELSE IF m = "choco"
  THEN IF t \notin f
       THEN Runs(<<Command("install", "choco", t, FALSE)>>)
       ELSE Runs(<<Command("upgrade", "choco", t, FALSE)>>)
  ELSE Throws

\* part_001: ensureNpmGlobal(pkg, cmd)
ensureNpmGlobalSync(f) ==
  IF "npm" \notin f THEN Throws
  ELSE IF "netlify" \notin f
  THEN Runs(<<Command("install", "npm", "netlify-cli", FALSE)>>)
  ELSE Runs(<<Command("upgrade", "npm", "netlify-cli", FALSE)>>)

\* part_001: ensureFlutter(mgr)
ensureFlutterSync(m, f) ==
  IF "flutter" \notin f
  THEN IF m = "winget" THEN Runs(<<Command("install", "winget", "flutter", FALSE)>>)
       ELSE IF m = "choco" THEN Runs(<<Command("install", "choco", "flutter", FALSE)>>)
       ELSE Throws
  ELSE Runs(<<Command("upgrade", "flutter", "flutter", FALSE)>>)

\* part_001: ensurePythonPackage(tool)
ensurePythonPackage(f, listed) ==
  IF "pipx" \in f
  THEN IF listed THEN Runs(<<Command("upgrade", "pipx", "aider-chat", FALSE)>>)
       ELSE Runs(<<Command("install", "pipx", "aider-chat", FALSE)>>)
  ELSE IF "python" \notin f THEN Runs(<<>>)
  ELSE Runs(<<Command("install --upgrade", "pip", "pip", FALSE),
              Command("install --upgrade", "pip", "aider-chat", FALSE)>>)

\* the ensure step main takes for tool t
Plan(s, m, t, f, listed) ==
  IF s = "bootstrap.mjs"
  THEN CASE t = "netlify" -> ensureNpmGlobal(f)
         [] t = "flutter" -> ensureFlutter(m, f)
         [] t = "python" -> ensurePython(f)
         [] t = "pipx" -> ensurePipx(f)
         [] t = "aider" -> ensureAider(f, listed)
         [] OTHER -> ensurePkg(m, t, f)
  ELSE CASE t = "netlify" -> ensureNpmGlobalSync(f)
         [] t = "flutter" -> ensureFlutterSync(m, f)
         [] t = "aider" -> ensurePythonPackage(f, listed)
         [] OTHER -> installOrUpdateWithMgr(m, t, f)

\* the same order with the Promise.all not awaited: python waits for nothing
StepsBeforeNoAwait(s, t) ==
  IF s = "bootstrap.mjs"
  THEN CASE t \in Parallel -> {}
         [] t = "python" -> {}
         [] t = "pipx" -> {"python"}
         [] OTHER -> {"python", "pipx"}
  ELSE LET i == CHOOSE j \in 1..Len(ordered) : ordered[j] = t
       IN {ordered[j] : j \in 1..(i - 1)}


\* the steps that are over before the step of tool t begins: in
\* bootstrap.mjs the six of Promise.all wait for nothing, python waits for
\* the six, pipx for python, aider for pipx; part_001 walks ordered
StepsBefore(s, t) ==
  IF s = "bootstrap.mjs"
  THEN CASE t \in Parallel -> {}
         [] t = "python" -> Parallel
         [] t = "pipx" -> Parallel \cup {"python"}
         [] OTHER -> Parallel \cup {"python", "pipx"}
  ELSE LET i == CHOOSE j \in 1..Len(ordered) : ordered[j] = t
       IN {ordered[j] : j \in 1..(i - 1)}

\* the commands a tool's install puts on the PATH
Provides(t) == IF t = "node" THEN {"node", "npm"} ELSE {t}

\* the machines of the runs in the model, by the commands already there
FoundSets ==
  { {},
    Commands,
    Commands \ {"pipx"},
    Commands \ {"aider"},
    Commands \ {"node", "npm", "netlify"},
    {"node", "npm", "python"},
    {"git", "gh", "python", "pipx"} }

InitBootstrap ==
  /\ script \in Scripts
  /\ mgr \in PkgMgrs
  /\ refresh \in BOOLEAN
  /\ found \in FoundSets
  /\ seen = [t \in Tools |-> "unchecked"]
  /\ task = [t \in Tools |-> "todo"]
  /\ queue = [t \in Tools |-> <<>>]
  /\ did = [t \in Tools |-> <<>>]
  /\ phase = "running"
  /\ pc = "start" /\ variant = "none" /\ arg = Undefined /\ intent = NoIntent
  /\ retStr = <<>> /\ retVal = NoVerdict
  /\ env = NoEnv /\ ran = <<>> /\ printed = <<>> /\ exitCode = -1
  /\ cfgFile = FileAbsent /\ config = NoConfig
  /\ NoCalls
  /\ NoParse
  /\ NoDeploy

\* the step of tool t begins: its exists() checks answer and it decides
\* what to run, or throws
BootCheck(t) ==
  /\ phase = "running"
  /\ task[t] = "todo"
  /\ \A u \in StepsBefore(script, t) : task[u] \in {"ok", "skipped"}
  /\ \E listed \in (IF t = "aider" /\ "pipx" \in found THEN BOOLEAN ELSE {FALSE}) :
       LET plan == Plan(script, mgr, t, found, listed)
       IN /\ seen' = [seen EXCEPT ![t] = IF t \in found THEN "found" ELSE "missing"]
          /\ queue' = [queue EXCEPT ![t] = plan.cmds]
          /\ task' = [task EXCEPT ![t] =
               IF plan.throws THEN "failed"
               ELSE IF plan.cmds = <<>> THEN "skipped" ELSE "checked"]
          /\ phase' = IF plan.throws THEN "crashed" ELSE phase
  /\ UNCHANGED <<script, mgr, refresh, found, did>>
  /\ UNCHANGED <<namingVars, mainVars, callVars, argVars, deployVars>>

\* the step of tool t starts its next command
BootLaunch(t) ==
  /\ phase = "running"
  /\ task[t] = "checked"
  /\ did' = [did EXCEPT ![t] = Append(@, Head(queue[t]))]
  /\ queue' = [queue EXCEPT ![t] = Tail(@)]
  /\ task' = [task EXCEPT ![t] = "running"]
  /\ UNCHANGED <<script, mgr, refresh, found, seen, phase>>
  /\ UNCHANGED <<namingVars, mainVars, callVars, argVars, deployVars>>

\* the command the step of tool t is running exits, with status zero or
\* not; a failure nobody catches ends the script
BootExit(t) ==
  /\ phase = "running"
  /\ task[t] = "running"
  /\ \E okay \in BOOLEAN :
       LET c == did[t][Len(did[t])]
       IN IF ~okay /\ ~c.caught
          THEN /\ task' = [task EXCEPT ![t] = "failed"]
               /\ phase' = "crashed"
               /\ UNCHANGED found
          ELSE /\ task' = [task EXCEPT ![t] = IF queue[t] = <<>> THEN "ok" ELSE "checked"]
               /\ found' = IF okay /\ c.verb = "install" /\ refresh
                           THEN found \cup Provides(t) ELSE found
               /\ UNCHANGED phase
  /\ UNCHANGED <<script, mgr, refresh, seen, queue, did>>
  /\ UNCHANGED <<namingVars, mainVars, callVars, argVars, deployVars>>

\* printVersions(), authHints(), console.log("\nDone.")
BootDone ==
  /\ phase = "running"
  /\ \A t \in Tools : task[t] \in {"ok", "skipped"}
  /\ phase' = "done"
  /\ UNCHANGED <<script, mgr, refresh, found, seen, task, queue, did>>
  /\ UNCHANGED <<namingVars, mainVars, callVars, argVars, deployVars>>

NextBootstrap ==
  \/ \E t \in Tools : BootCheck(t)
  \/ \E t \in Tools : BootLaunch(t)
  \/ \E t \in Tools : BootExit(t)
  \/ BootDone

SpecBootstrap == InitBootstrap /\ [][NextBootstrap]_vars

\* ----------------------------------------------- callers of the modules
\* the most calls the callers make in one run of the model
MaxCalls == 3

\* the callers: new-project.mjs and the test file both import the module
Callers == {"new-project", "naming.test"}

\* the names the callers pass
CallStrings ==
  { Str(<<"m","y","-","a","p","p">>),
    Str(<<"m","y","-","a","p","p","-","v","1">>),
    Str(<<"M","y"," ","A","p","p">>) }

\* the intents the callers pass
CallIntents ==
  { [NoIntent EXCEPT !.project = Str(<<"e","c","o","m">>),
                     !.description = Str(<<"f","r","o","n","t","e","n","d">>)],
    [NoIntent EXCEPT !.raw = Str(<<"M","y","A","p","p">>)] }

\* one finished call: who called what of which module with what, and what
\* came back
CallRecord(c, fn, m, x, o, str, verdict) ==
  [caller |-> c, fn |-> fn, variant |-> m, value |-> x, intent |-> o,
   str |-> str, verdict |-> verdict]

InitCallers ==
  /\ NoCalls
  /\ NoParse
  /\ NoDeploy
  /\ BootIdle
  /\ pc = "start" /\ variant = "none" /\ arg = Undefined /\ intent = NoIntent
  /\ retStr = <<>> /\ retVal = NoVerdict
  /\ env = NoEnv /\ ran = <<>> /\ printed = <<>> /\ exitCode = -1
  /\ cfgFile = FileAbsent /\ config = NoConfig

\* caller c calls toKebab(x): no statement of it touches the Set
CallerToKebab(c) ==
  /\ ncalls < MaxCalls
  /\ \E m \in Variants, x \in CallStrings :
       log' = log \cup {CallRecord(c, "toKebab", m, x, NoIntent, toKebab(m, x), NoVerdict)}
  /\ ncalls' = ncalls + 1
  /\ UNCHANGED tokenSet
  /\ UNCHANGED <<namingVars, mainVars, bootVars, argVars, deployVars>>

\* caller c calls validateRepoName(x): the loop asks the Set about each
\* segment
CallerValidate(c) ==
  /\ ncalls < MaxCalls
  /\ \E m \in Variants, x \in CallStrings :
       LET errors == IF m = "templates" THEN ErrorsOfTemplatesIn(tokenSet[m], x.v)
                     ELSE ErrorsOfNamingIn(tokenSet[m], x.v)
       IN /\ log' = log \cup {CallRecord(c, "validateRepoName", m, x, NoIntent, <<>>, Verdict(errors))}
          /\ tokenSet' = [tokenSet EXCEPT ![m] = TokensAfterLoop(@, Segments(x.v))]
  /\ ncalls' = ncalls + 1
  /\ UNCHANGED <<namingVars, mainVars, bootVars, argVars, deployVars>>

\* caller c calls buildRepoName(o): no statement of it touches the Set
CallerBuild(c) ==
  /\ ncalls < MaxCalls
  /\ \E m \in Variants, o \in CallIntents :
       log' = log \cup {CallRecord(c, "buildRepoName", m, Undefined, o, buildRepoName(m, o), NoVerdict)}
  /\ ncalls' = ncalls + 1
  /\ UNCHANGED tokenSet
  /\ UNCHANGED <<namingVars, mainVars, bootVars, argVars, deployVars>>

NextCallers ==
  \/ \E c \in Callers : CallerToKebab(c)
  \/ \E c \in Callers : CallerValidate(c)
  \/ \E c \in Callers : CallerBuild(c)

SpecCallers == InitCallers /\ [][NextCallers]_vars

\* ------------------------------------------- new-project.mjs, parseArgs
\* the longest command line of the model
MaxArgs == 3

\* the tokens of the command lines of the model: --repo, --netlify,
\* --__proto__, --, the empty string, my-app, -x
ArgTokens ==
  { <<"-","-","r","e","p","o">>,
    <<"-","-","n","e","t","l","i","f","y">>,
    <<"-","-","_","_","p","r","o","t","o","_","_">>,
    <<"-","-">>,
    <<>>,
    <<"m","y","-","a","p","p">>,
    <<"-","x">> }

\* the command lines of the model
ArgLines == UNION { [1..k -> ArgTokens] : k \in 0..MaxArgs }

\* a.startsWith("--")
StartsWithDashes(a) == Len(a) >= 2 /\ a[1] = "-" /\ a[2] = "-"

\* a.slice(2)
SliceTwo(a) == SubSeq(a, 3, Len(a))

\* one own property of args
Entry(key, val) == [key |-> key, val |-> val]

\* the same test without !next: the empty token counts as a value
ValueFollowsEvenEmpty(line, i) ==
  i + 1 <= Len(line) /\ ~StartsWithDashes(line[i + 1])

\* the else branch is taken: next is there, is not the empty string and does
\* not start with "--"
ValueFollows(line, i) ==
  i + 1 <= Len(line) /\ line[i + 1] # <<>> /\ ~StartsWithDashes(line[i + 1])

\* args[key] = val on the object literal {}: the key __proto__ reaches the
\* setter of Object.prototype, which ignores a boolean or a string, so no
\* own property is made; any other key is set, replacing an earlier value
AssignKey(obj, key, val) ==
  IF key = <<"_","_","p","r","o","t","o","_","_">> THEN obj
  ELSE {e \in obj : e.key # key} \cup {Entry(key, val)}

InitArgs ==
  /\ argv \in ArgLines
  /\ argi = 1
  /\ args = {}
  /\ ppc = "loop"
  /\ NoDeploy
  /\ NoCalls
  /\ BootIdle
  /\ pc = "start" /\ variant = "none" /\ arg = Undefined /\ intent = NoIntent
  /\ retStr = <<>> /\ retVal = NoVerdict
  /\ env = NoEnv /\ ran = <<>> /\ printed = <<>> /\ exitCode = -1
  /\ cfgFile = FileAbsent /\ config = NoConfig

\* if (!a.startsWith("--")) continue
ParseSkip ==
  /\ ppc = "loop" /\ argi <= Len(argv)
  /\ ~StartsWithDashes(argv[argi])
  /\ argi' = argi + 1
  /\ UNCHANGED <<argv, args, ppc>>
  /\ UNCHANGED <<namingVars, mainVars, bootVars, callVars, deployVars>>

\* if (!next || next.startsWith("--")) args[key] = true
ParseFlag ==
  /\ ppc = "loop" /\ argi <= Len(argv)
  /\ StartsWithDashes(argv[argi])
  /\ ~ValueFollows(argv, argi)
  /\ args' = AssignKey(args, SliceTwo(argv[argi]), JsTrue)
  /\ argi' = argi + 1
  /\ UNCHANGED <<argv, ppc>>
  /\ UNCHANGED <<namingVars, mainVars, bootVars, callVars, deployVars>>

\* else { args[key] = next; i++ }
ParsePair ==
  /\ ppc = "loop" /\ argi <= Len(argv)
  /\ StartsWithDashes(argv[argi])
  /\ ValueFollows(argv, argi)
  /\ args' = AssignKey(args, SliceTwo(argv[argi]), Str(argv[argi + 1]))
  /\ argi' = argi + 2
  /\ UNCHANGED <<argv, ppc>>
  /\ UNCHANGED <<namingVars, mainVars, bootVars, callVars, deployVars>>

\* return args
ParseReturn ==
  /\ ppc = "loop" /\ argi > Len(argv)
  /\ ppc' = "returned"
  /\ UNCHANGED <<argv, argi, args>>
  /\ UNCHANGED <<namingVars, mainVars, bootVars, callVars, deployVars>>

NextArgs ==
  \/ ParseSkip
  \/ ParseFlag
  \/ ParsePair
  \/ ParseReturn

SpecArgs == InitArgs /\ [][NextArgs]_vars

\* ------------------------- the generated functions/api/scripts/deploy.mjs
\* the longest command line of deploy.mjs in the model
MaxDeployArgs == 4

\* the tokens of its command lines: --dryRun, --project, --target, p1, run,
\* true
DeployTokens ==
  { <<"-","-","d","r","y","R","u","n">>,
    <<"-","-","p","r","o","j","e","c","t">>,
    <<"-","-","t","a","r","g","e","t">>,
    <<"p","1">>,
    <<"r","u","n">>,
    <<"t","r","u","e">> }

\* its command lines
DeployLines == UNION { [1..k -> DeployTokens] : k \in 0..MaxDeployArgs }

\* process.argv.indexOf("--" + key), counted from 1, 0 for -1
IndexOfKey(line, key) ==
  IF \E i \in 1..Len(line) : line[i] = <<"-","-">> \o key
  THEN CHOOSE i \in 1..Len(line) :
         /\ line[i] = <<"-","-">> \o key
         /\ \A j \in 1..(i - 1) : line[j] # <<"-","-">> \o key
  ELSE 0

\* getArg(key, def)
getArg(line, key, def) ==
  LET ix == IndexOfKey(line, key)
  IN IF ix = 0 THEN def
     ELSE IF ix + 1 > Len(line) THEN def
     ELSE IF line[ix + 1] = <<>> \/ StartsWithDashes(line[ix + 1]) THEN def
     ELSE Str(line[ix + 1])

InitDeploy ==
  /\ argv \in DeployLines
  /\ gcpEnv \in {<<>>, <<"p","0">>}
  /\ dpc = "args"
  /\ opts = NoOpts
  /\ executed = <<>> /\ wouldRun = <<>> /\ dstatus = -1
  /\ argi = 1 /\ args = {} /\ ppc = "idle"
  /\ NoCalls
  /\ BootIdle
  /\ pc = "start" /\ variant = "none" /\ arg = Undefined /\ intent = NoIntent
  /\ retStr = <<>> /\ retVal = NoVerdict
  /\ env = NoEnv /\ ran = <<>> /\ printed = <<>> /\ exitCode = -1
  /\ cfgFile = FileAbsent /\ config = NoConfig

\* run(cmd) of deploy.mjs: with dryRun the command is only logged, else
\* execSync runs it and either returns or throws
DeployRunCommand(cmd, to, status) ==
  IF Truthy(opts.dryRun)
  THEN /\ wouldRun' = Append(wouldRun, cmd)
       /\ dpc' = to /\ dstatus' = status
       /\ UNCHANGED executed
  ELSE /\ executed' = Append(executed, cmd)
       /\ UNCHANGED wouldRun
       /\ \/ dpc' = to /\ dstatus' = status
          \/ dpc' = "exit" /\ dstatus' = 1

\* const target = getArg("target", "functions") ... const dryRun =
\* getArg("dryRun", false)
DeployReadArgs ==
  /\ dpc = "args"
  /\ opts' = [ target |-> getArg(argv, <<"t","a","r","g","e","t">>,
                                 Str(<<"f","u","n","c","t","i","o","n","s">>)).v,
               project |-> getArg(argv, <<"p","r","o","j","e","c","t">>, Str(gcpEnv)).v,
               dryRun |-> getArg(argv, <<"d","r","y","R","u","n">>, JsFalse) ]
  /\ dpc' = "project"
  /\ UNCHANGED <<gcpEnv, executed, wouldRun, dstatus, argv, argi, args, ppc>>
  /\ UNCHANGED <<namingVars, mainVars, bootVars, callVars>>

\* if (!project) { console.log(...); process.exit(1) }
DeployMissingProject ==
  /\ dpc = "project"
  /\ opts.project = <<>>
  /\ dpc' = "exit" /\ dstatus' = 1
  /\ UNCHANGED <<gcpEnv, opts, executed, wouldRun, argv, argi, args, ppc>>
  /\ UNCHANGED <<namingVars, mainVars, bootVars, callVars>>

\* run(`gcloud config set project ${project}`)
DeploySetProject ==
  /\ dpc = "project"
  /\ opts.project # <<>>
  /\ DeployRunCommand("gcloud config set project", "target", -1)
  /\ UNCHANGED <<gcpEnv, opts, argv, argi, args, ppc>>
  /\ UNCHANGED <<namingVars, mainVars, bootVars, callVars>>

\* if (target === "functions") { run(gcloud functions deploy ...);
\* process.exit(0) }
DeployFunctions ==
  /\ dpc = "target"
  /\ opts.target = <<"f","u","n","c","t","i","o","n","s">>
  /\ DeployRunCommand("gcloud functions deploy", "exit", 0)
  /\ UNCHANGED <<gcpEnv, opts, argv, argi, args, ppc>>
  /\ UNCHANGED <<namingVars, mainVars, bootVars, callVars>>

\* if (target === "run") { run(gcloud run deploy ...); process.exit(0) }
DeployCloudRun ==
  /\ dpc = "target"
  /\ opts.target = <<"r","u","n">>
  /\ DeployRunCommand("gcloud run deploy", "exit", 0)
  /\ UNCHANGED <<gcpEnv, opts, argv, argi, args, ppc>>
  /\ UNCHANGED <<namingVars, mainVars, bootVars, callVars>>

\* console.log(`Unknown --target ...`); process.exit(1)
DeployUnknownTarget ==
  /\ dpc = "target"
  /\ opts.target \notin {<<"f","u","n","c","t","i","o","n","s">>, <<"r","u","n">>}
  /\ dpc' = "exit" /\ dstatus' = 1
  /\ UNCHANGED <<gcpEnv, opts, executed, wouldRun, argv, argi, args, ppc>>
  /\ UNCHANGED <<namingVars, mainVars, bootVars, callVars>>

NextDeploy ==
  \/ DeployReadArgs
  \/ DeployMissingProject
  \/ DeploySetProject
  \/ DeployFunctions
  \/ DeployCloudRun
  \/ DeployUnknownTarget

SpecDeploy == InitDeploy /\ [][NextDeploy]_vars

\* ======================================================================
\* Properties
\* ======================================================================
\* validateRepoName has returned a result for the string n
Validated == pc \in {"validated", "checked"} /\ arg.t = "string" /\ ~retVal.threw

\* the message e is in errors
Reported(e) == \E i \in 1..Len(retVal.errors) : retVal.errors[i] = e

\* the hyphen-delimited, non-empty segments of n, as index ranges
SegmentSpans(n) ==
  { sp \in (1..Len(n)) \X (1..Len(n)) :
      /\ sp[1] <= sp[2]
      /\ \A k \in sp[1]..sp[2] : n[k] # "-"
      /\ sp[1] = 1 \/ n[sp[1] - 1] = "-"
      /\ sp[2] = Len(n) \/ n[sp[2] + 1] = "-" }

SegmentSet(n) == { SubSeq(n, sp[1], sp[2]) : sp \in SegmentSpans(n) }

\* v followed by one or more digits
VDigits(p) == Len(p) >= 2 /\ p[1] = "v" /\ \A k \in 2..Len(p) : p[k] \in Digit

\* the BadVersionToken set as the specification gives it
SpecBadTokens ==
  { <<"v">> \o d : d \in { <<DigitSeq[i]>> : i \in 2..10 } \cup { <<"1","0">> } }
  \cup { <<"f","i","n","a","l">>, <<"l","a","t","e","s","t">>, <<"n","e","w">>,
         <<"o","l","d">>, <<"r","e","l","e","a","s","e">>, <<"r","e","v">> }

\* each rule's own condition, read off the rule
BreaksCharset(n) == n = <<>> \/ \E i \in 1..Len(n) : n[i] \notin AlNum \cup {"-"}
BreaksForbidden(n) == \E i \in 1..Len(n) : n[i] \in Upper \/ n[i] = "_" \/ n[i] = " "
BreaksDoubleHyphen(n) == \E i \in 1..(Len(n) - 1) : n[i] = "-" /\ n[i + 1] = "-"
BreaksEdgeHyphen(n) == Len(n) >= 1 /\ (n[1] = "-" \/ n[Len(n)] = "-")
BreaksMinSegments(n) == Cardinality(SegmentSpans(n)) < 2

\* ^[a-z0-9]+(-[a-z0-9]+)*$
IsCanonical(n) ==
  /\ n # <<>>
  /\ \A i \in 1..Len(n) : n[i] \in AlNum \cup {"-"}
  /\ n[1] # "-" /\ n[Len(n)] # "-"
  /\ \A i \in 1..(Len(n) - 1) : ~(n[i] = "-" /\ n[i + 1] = "-")

SampleMyApp == <<"-","M","y","-","-","a","p","p">>

\* C1: validateRepoName never short-circuits: every rule's message is in
\* errors exactly when that rule's own condition holds for the input,
\* whatever the other rules found.
C1_EveryRuleReported ==
  Validated =>
    LET n == arg.v IN
    /\ Reported(MsgCharset) <=> BreaksCharset(n)
    /\ Reported(MsgForbidden) <=> BreaksForbidden(n)
    /\ Reported(MsgDoubleHyphen) <=> BreaksDoubleHyphen(n)
    /\ Reported(MsgEdgeHyphen) <=> BreaksEdgeHyphen(n)
    /\ Reported(MsgMinSegments(variant)) <=> BreaksMinSegments(n)
    /\ \A p \in SegmentSet(n) :
         /\ Reported(MsgBadToken(p)) <=> p \in BAD_VERSION_TOKENS(variant)
         /\ Reported(MsgVersionToken(p)) <=> VDigits(p)
    /\ \A i \in 1..Len(retVal.errors) :
         retVal.errors[i].seg # <<>> => retVal.errors[i].seg \in SegmentSet(n)

\* '-My--app' has been validated and carries the four whole-string messages
C1_Witness ==
  /\ Validated
  /\ arg.v = SampleMyApp
  /\ Reported(MsgCharset) /\ Reported(MsgForbidden)
  /\ Reported(MsgDoubleHyphen) /\ Reported(MsgEdgeHyphen)

\* C2: in every result of validateRepoName, ok is true if and only if
\* errors is empty.
C2_OkIffNoErrors ==
  (pc \in {"validated", "checked"} /\ ~retVal.threw) =>
    (retVal.ok <=> retVal.errors = <<>>)

\* a name was rejected with more than one message
C2_Witness == Validated /\ ~retVal.ok /\ Len(retVal.errors) >= 2

\* a name to which the specification's validity rules all apply
SpecValid(n) ==
  /\ \A i \in 1..Len(n) : n[i] \in AlNum \cup {"-"}
  /\ ~BreaksDoubleHyphen(n)
  /\ ~BreaksEdgeHyphen(n)
  /\ Cardinality(SegmentSpans(n)) >= 2
  /\ \A p \in SegmentSet(n) : p \notin SpecBadTokens /\ ~VDigits(p)

\* C3: every name of lowercase letters, digits and hyphens with no double
\* hyphen, no edge hyphen, at least two segments and no bad segment is
\* accepted: ok true, errors empty.
C3_ValidAccepted ==
  (Validated /\ SpecValid(arg.v)) => (retVal.ok /\ retVal.errors = <<>>)

\* a valid three-segment name was validated by the module under test
C3_Witness ==
  /\ pc = "validated" /\ variant = "naming"
  /\ arg = Str(<<"m","y","-","a","w","e","s","o","m","e","-","p","r","o","j","e","c","t">>)
  /\ retVal.ok

\* C4: an accepted name matches ^[a-z0-9]+(-[a-z0-9]+)*$, has at least two
\* segments and has no segment in the BadVersionToken set or of the form
\* v<digits>.
C4_AcceptedIsCanonical ==
  (Validated /\ retVal.ok) =>
    /\ IsCanonical(arg.v)
    /\ Cardinality(SegmentSpans(arg.v)) >= 2
    /\ \A p \in SegmentSet(arg.v) : p \notin SpecBadTokens /\ ~VDigits(p)

\* C5: a name with a segment that is a BadVersionToken or of the form
\* v<digits> is rejected, with a message that names the segment.
C5_BadSegmentRejected ==
  Validated =>
    \A p \in SegmentSet(arg.v) :
      (p \in SpecBadTokens \/ VDigits(p)) =>
        /\ ~retVal.ok
        /\ \E i \in 1..Len(retVal.errors) : retVal.errors[i].seg = p

\* toKebab has returned for the string s
Kebabed == pc \in {"kebab", "kebab2"} /\ arg.t = "string"

HasAlNum(s) == \E i \in 1..Len(s) : s[i] \in Lower \cup Upper \cup Digit

\* C6: toKebab(s) contains only a-z, 0-9 and hyphens, never starts or ends
\* with a hyphen, never has two hyphens in a row, and is empty when s has no
\* alphanumeric character.
C6_KebabShape ==
  Kebabed =>
    /\ \A i \in 1..Len(retStr) : retStr[i] \in AlNum \cup {"-"}
    /\ retStr # <<>> => (retStr[1] # "-" /\ retStr[Len(retStr)] # "-")
    /\ \A i \in 1..(Len(retStr) - 1) : ~(retStr[i] = "-" /\ retStr[i + 1] = "-")
    /\ ~HasAlNum(arg.v) => retStr = <<>>

\* toKebab turned a string with uppercase, spaces, underscores and
\* punctuation into a hyphenated name
C6_Witness ==
  /\ pc = "kebab"
  /\ arg = Str(<<" ","\t","M","y"," ","C","o","o","l","_","_","A","p","p","!"," ">>)
  /\ retStr = <<"m","y","-","c","o","o","l","-","a","p","p">>

\* C7: toKebab is idempotent: toKebab(toKebab(s)) = toKebab(s).
C7_KebabIdempotent == pc = "kebab2" => retStr = arg.v

\* the second application ran on a non-empty result of the first
C7_Witness ==
  /\ pc = "kebab2"
  /\ arg.v = <<"m","y","-","a","p","p">>
  /\ retStr = <<"m","y","-","a","p","p">>

\* a field that is set to a lowercase token
IsToken(x) == x.t = "string" /\ IsCanonical(x.v)

\* exactly the fields fs of the intent carry a token, the others are unset
OnlyTokens(fs) ==
  \A f \in DOMAIN intent :
    IF f \in fs THEN IsToken(intent[f]) ELSE intent[f] = Undefined

\* C8: called with one NamingIntent object, as new-project.mjs does,
\* buildRepoName returns the tokens of the fired pattern joined by '-':
\* p-d, p-s-t and t-c.
C8_PatternJoined ==
  (pc = "built" /\ variant = "naming") =>
    /\ OnlyTokens({"project", "description"}) =>
         retStr = intent.project.v \o <<"-">> \o intent.description.v
    /\ OnlyTokens({"project", "service", "type"}) =>
         retStr = intent.project.v \o <<"-">> \o intent.service.v
                  \o <<"-">> \o intent.type.v
    /\ OnlyTokens({"team", "component"}) =>
         retStr = intent.team.v \o <<"-">> \o intent.component.v

\* C9: when raw is non-empty, buildRepoName returns toKebab(raw), whatever
\* the other fields hold.
C9_RawWins ==
  (pc = "built" /\ variant = "templates" /\ Truthy(intent.raw)) =>
    retStr = toKebabTemplates(intent.raw)

\* raw was given together with a prefix and fields of every pattern
C9_Witness ==
  /\ pc = "built" /\ variant = "templates"
  /\ intent.raw = Str(<<"M","y","A","p","p">>)
  /\ Truthy(intent.prefix) /\ Truthy(intent.project) /\ Truthy(intent.team)
  /\ Truthy(intent.service)
  /\ retStr = <<"m","y","a","p","p">>

\* the name built from the fields fs alone: empty ones dropped, the rest
\* joined with '-' and normalized, then the prefix applied
BuiltFrom(fs) ==
  WithPrefix(intent.prefix, toKebabTemplates(Str(JoinHyphen(FilterTruthy(fs)))))

\* C10: with raw unset the first matching pattern alone decides the name:
\* [team, component] if either is set, else [project, service, type] if
\* service or type is set, else [project, description].
C10_FirstPatternOnly ==
  (pc = "built" /\ variant = "templates" /\ ~Truthy(intent.raw)) =>
    LET teamSet == Truthy(intent.team) \/ Truthy(intent.component)
        serviceSet == Truthy(intent.service) \/ Truthy(intent.type)
    IN /\ teamSet => retStr = BuiltFrom(<<intent.team, intent.component>>)
       /\ (~teamSet /\ serviceSet) =>
            retStr = BuiltFrom(<<intent.project, intent.service, intent.type>>)
       /\ (~teamSet /\ ~serviceSet) =>
            retStr = BuiltFrom(<<intent.project, intent.description>>)

\* team is set next to project, description, service and type, and only
\* team made it into the name
C10_Witness ==
  /\ pc = "built" /\ variant = "templates"
  /\ intent.raw = Undefined /\ intent.prefix = Undefined
  /\ Truthy(intent.team) /\ intent.component = Undefined
  /\ Truthy(intent.project) /\ Truthy(intent.description)
  /\ Truthy(intent.service) /\ Truthy(intent.type)
  /\ retStr = <<"d","a","t","a">>

\* buildRepoName of _templates.mjs has returned with raw unset or empty
BuiltNoRaw == pc \in {"built", "checked"} /\ variant = "templates" /\ ~Truthy(intent.raw)

\* C11: with raw unset and prefix non-empty the result is
\* toKebab(prefix + '-' + base); when prefix and base both hold an
\* alphanumeric character that is toKebab(prefix), a hyphen, then base; with
\* prefix unset or empty the result is base.
C11_PrefixApplied ==
  BuiltNoRaw =>
    LET base == BaseName(intent)
        prefix == intent.prefix
    IN /\ Truthy(prefix) => retStr = KebabChain(prefix.v \o <<"-">> \o base)
       /\ (Truthy(prefix) /\ HasAlNum(prefix.v) /\ base # <<>>) =>
            retStr = KebabChain(prefix.v) \o <<"-">> \o base
       /\ ~Truthy(prefix) => retStr = base

\* the prefix 'Web_' was normalized and put in front of a two-field base
C11_Witness ==
  /\ pc = "built" /\ variant = "templates"
  /\ intent.prefix = Str(<<"W","e","b","_">>)
  /\ intent.raw = Undefined
  /\ retStr = <<"w","e","b","-","w","e","b","s","i","t","e","-",
                "f","r","o","n","t","-","e","n","d">>

\* raw and every field of every pattern are unset or empty
AllPatternFieldsEmpty ==
  \A f \in DOMAIN intent \ {"prefix"} : ~Truthy(intent[f])

\* C12 as stated: with every pattern field empty buildRepoName returns the
\* empty string and validateRepoName rejects it with the character-set and
\* minimum-segment messages, for any value of prefix.
C12_EmptyRejectedAnyPrefix ==
  (pc = "checked" /\ variant = "templates" /\ AllPatternFieldsEmpty) =>
    /\ retStr = <<>>
    /\ ~retVal.ok
    /\ Reported(MsgCharset) /\ Reported(MsgMinSegmentsTemplates)

\* C12 amended: with every pattern field empty, and prefix unset or
\* without an alphanumeric character, buildRepoName returns the empty string
\* and validateRepoName rejects it with the character-set and
\* minimum-segment messages; with any other prefix buildRepoName returns
\* toKebab(prefix).
C12_EmptyRejectedNoPrefix ==
  (pc = "checked" /\ variant = "templates" /\ AllPatternFieldsEmpty) =>
    IF intent.prefix.t = "string" /\ HasAlNum(intent.prefix.v)
    THEN retStr = KebabChain(intent.prefix.v)
    ELSE /\ retStr = <<>>
         /\ ~retVal.ok
         /\ retVal.errors = <<MsgCharset, MsgMinSegmentsTemplates>>

\* nothing but an empty project was passed and the empty name was rejected
C12_Witness ==
  /\ pc = "checked" /\ variant = "templates"
  /\ AllPatternFieldsEmpty
  /\ intent.prefix = Undefined /\ intent.project = Str(<<>>)
  /\ retStr = <<>> /\ ~retVal.ok

\* C13: toKebab(null) and toKebab(undefined) return the empty string.
C13_NullishKebabEmpty ==
  (pc = "kebab" /\ arg \in {Null, Undefined}) => retStr = <<>>

\* C14: validateRepoName(null) and validateRepoName(undefined) do not
\* throw: they return ok false with the character-set and minimum-segment
\* messages, as for ''.
C14_NullishValidated ==
  (pc = "validated" /\ arg \in {Null, Undefined}) =>
    /\ ~retVal.threw
    /\ ~retVal.ok
    /\ Reported(MsgCharset) /\ Reported(MsgMinSegments(variant))

\* s with every uppercase letter replaced by its lowercase letter
Lowered(s) ==
  [ i \in 1..Len(s) |->
      IF \E k \in 1..26 : UpperSeq[k] = s[i]
      THEN LowerSeq[CHOOSE k \in 1..26 : UpperSeq[k] = s[i]]
      ELSE s[i] ]

\* the maximal runs of [a-z0-9] in l, as index ranges
RunSpans(l) ==
  { sp \in (1..Len(l)) \X (1..Len(l)) :
      /\ sp[1] <= sp[2]
      /\ \A k \in sp[1]..sp[2] : l[k] \in AlNum
      /\ sp[1] = 1 \/ l[sp[1] - 1] \notin AlNum
      /\ sp[2] = Len(l) \/ l[sp[2] + 1] \notin AlNum }

\* the pieces of l under the index ranges spans, left to right, with a
\* hyphen between neighbours
RECURSIVE JoinSpans(_, _)
JoinSpans(l, spans) ==
  IF spans = {} THEN <<>>
  ELSE LET first == CHOOSE sp \in spans : \A o \in spans : sp[1] <= o[1]
           rest == spans \ {first}
       IN SubSeq(l, first[1], first[2])
          \o (IF rest = {} THEN <<>> ELSE <<"-">>)
          \o JoinSpans(l, rest)

\* C18: toKebab(s) is the maximal runs of [a-z0-9] of the lowercased s, in
\* order, joined by single hyphens.
C18_KebabIsRunsJoined ==
  Kebabed => retStr = JoinSpans(Lowered(arg.v), RunSpans(Lowered(arg.v)))

\* 'My.app' became 'my-app': two runs, the first lowercased
C18_Witness ==
  /\ pc = "kebab"
  /\ arg = Str(<<"M","y",".","a","p","p">>)
  /\ retStr = <<"m","y","-","a","p","p">>

\* the segments of n under the index ranges spans, left to right
RECURSIVE SegmentsInOrder(_, _)
SegmentsInOrder(n, spans) ==
  IF spans = {} THEN <<>>
  ELSE LET first == CHOOSE sp \in spans : \A o \in spans : sp[1] <= o[1]
       IN <<SubSeq(n, first[1], first[2])>> \o SegmentsInOrder(n, spans \ {first})

\* the token messages for the segments ps: per segment, the membership
\* message before the pattern message
RECURSIVE TokenMessagesInOrder(_, _)
TokenMessagesInOrder(bad, ps) ==
  IF ps = <<>> THEN <<>>
  ELSE (IF Head(ps) \in bad THEN <<MsgBadToken(Head(ps))>> ELSE <<>>)
       \o (IF VDigits(Head(ps)) THEN <<MsgVersionToken(Head(ps))>> ELSE <<>>)
       \o TokenMessagesInOrder(bad, Tail(ps))

\* C19: errors is ordered by rule: character-set, forbidden-character,
\* double-hyphen, edge-hyphen, minimum-segment, then the token messages in
\* segment order, membership before pattern.
C19_ErrorsInRuleOrder ==
  Validated =>
    LET n == arg.v IN
    retVal.errors =
      (IF BreaksCharset(n) THEN <<MsgCharset>> ELSE <<>>)
      \o (IF BreaksForbidden(n) THEN <<MsgForbidden>> ELSE <<>>)
      \o (IF BreaksDoubleHyphen(n) THEN <<MsgDoubleHyphen>> ELSE <<>>)
      \o (IF BreaksEdgeHyphen(n) THEN <<MsgEdgeHyphen>> ELSE <<>>)
      \o (IF BreaksMinSegments(n) THEN <<MsgMinSegments(variant)>> ELSE <<>>)
      \o TokenMessagesInOrder(BAD_VERSION_TOKENS(variant),
                              SegmentsInOrder(n, SegmentSpans(n)))

\* how many entries of errors name the segment p
MessagesNaming(p) ==
  Cardinality({ i \in 1..Len(retVal.errors) : retVal.errors[i].seg = p })

\* how many times p occurs as a segment of n
Occurrences(n, p) ==
  Cardinality({ sp \in SegmentSpans(n) : SubSeq(n, sp[1], sp[2]) = p })

\* C20: in both variants each occurrence of a segment that is in the
\* variant's token set and also matches v<digits> adds exactly two messages,
\* and one that satisfies only one of the two checks adds exactly one.
C20_TwoMessagesPerDoubleHit ==
  Validated =>
    \A p \in SegmentSet(arg.v) :
      LET member == p \in BAD_VERSION_TOKENS(variant)
          pattern == VDigits(p)
      IN /\ (member /\ pattern) => MessagesNaming(p) = 2 * Occurrences(arg.v, p)
         /\ (member # pattern) => MessagesNaming(p) = Occurrences(arg.v, p)

\* 'v1-v1' was validated: two occurrences, four token messages
C20_Witness ==
  /\ Validated
  /\ arg.v = <<"v","1","-","v","1">>
  /\ MessagesNaming(<<"v","1">>) = 4

\* C15: new-project.mjs runs no repository-creating or scaffolding step
\* unless validateRepoName(buildRepoName(intent)).ok is true; when ok is
\* false it prints every error, one per line, and exits with status 1.
C15_NoScaffoldUnlessOk ==
  /\ ran # <<>> =>
       /\ arg = Str(retStr)
       /\ retStr = buildRepoName(variant, intent)
       /\ retVal.ok /\ retVal.errors = <<>>
  /\ (pc = "exit" /\ arg.t = "string" /\ retVal.errors # <<>>) =>
       /\ exitCode = 1
       /\ ran = <<>>
       /\ LET k == Len(printed) - Len(retVal.errors)
          IN /\ k >= 1
             /\ printed[k].kind = "violates"
             /\ \A i \in 1..Len(retVal.errors) :
                  printed[k + i] = Line("-", retVal.errors[i])

\* the shipped program created the repository after its name check passed
C15_Witness ==
  /\ variant = "naming"
  /\ retVal.ok
  /\ Len(ran) >= 1 /\ ran[1] = "gh repo create"

\* every key getDefaultConfig() has is there
AllDefaultKeys(c) ==
  /\ c.t = "object"
  /\ c.defaults.t = "object"
  /\ c.defaults.org # Undefined
  /\ c.defaults.private # Undefined
  /\ c.defaults.netlify # Undefined
  /\ c.defaults.gcp.t = "object"
  /\ c.defaults.gcp.project # Undefined
  /\ c.defaults.gcp.region # Undefined

\* main is past its call of loadConfig
ConfigLoaded == pc \notin {"start", "kebab", "kebab2", "validated", "built", "checked", "main"}

\* the value the file gives for a key, the default where it gives none
FileOrDefault(fileValue, defaultValue) ==
  IF fileValue = Undefined THEN defaultValue ELSE fileValue

\* C17: loadConfig never throws and always returns a configuration in which
\* every default key exists: exactly the defaults when .rapid-dev.json is
\* absent or cannot be parsed, otherwise the file's values merged over the
\* defaults.
C17_ConfigComplete ==
  /\ pc = "clis" => exitCode = -1
  /\ ConfigLoaded =>
       /\ AllDefaultKeys(config)
       /\ cfgFile.state # "json" => config = getDefaultConfig
       /\ cfgFile.state = "json" =>
            LET f == cfgFile.json.defaults
                d == getDefaultConfig.defaults
            IN /\ config.defaults.org = FileOrDefault(f.org, d.org)
               /\ config.defaults.private = FileOrDefault(f.private, d.private)
               /\ config.defaults.netlify = FileOrDefault(f.netlify, d.netlify)
               /\ config.defaults.gcp.project = FileOrDefault(f.gcp.project, d.gcp.project)
               /\ config.defaults.gcp.region = FileOrDefault(f.gcp.region, d.gcp.region)

\* a command that installs, a command that updates; pip's install --upgrade
\* does whichever applies
Installs(c) == c.verb \in {"install", "install --upgrade"}
Updates(c) == c.verb \in {"upgrade", "install --upgrade"}

\* C16: for each tool bootstrap manages, one run executes the tool's install
\* command when the tool's command is not found and its update/upgrade
\* command when it is found, never both and never neither.
C16_InstallXorUpdate ==
  phase = "done" =>
    \A t \in Tools :
      /\ seen[t] # "unchecked"
      /\ did[t] # <<>>
      /\ seen[t] = "missing" => \A i \in 1..Len(did[t]) : Installs(did[t][i])
      /\ seen[t] = "found" => \A i \in 1..Len(did[t]) : Updates(did[t][i])

\* C21: whenever the forbidden-character rule fires (the name contains an
\* uppercase letter, an underscore or a space) the character-set rule fires
\* too: such a name is rejected with both messages, and the
\* forbidden-character message never appears without the character-set one.
C21_ForbiddenImpliesCharset ==
  Validated =>
    /\ BreaksForbidden(arg.v) =>
         Reported(MsgForbidden) /\ Reported(MsgCharset) /\ ~retVal.ok
    /\ Reported(MsgForbidden) => Reported(MsgCharset)

\* a name with an underscore was validated and got both messages
C21_Witness ==
  /\ Validated
  /\ arg.v = <<"m","y","_","a","p","p">>
  /\ Reported(MsgForbidden) /\ Reported(MsgCharset)

\* the maximal runs of characters other than '-' in n, counted by their
\* first index
NonEmptySegmentCount(n) ==
  Cardinality({ i \in 1..Len(n) : n[i] # "-" /\ (i = 1 \/ n[i - 1] = "-") })

\* the names the statement lists as getting the message
FewSegmentSamples == { <<"m","y","a","p","p">>, <<>>, <<"-">>, <<"m","y","-">> }

\* C22: segments are counted after dropping the empty pieces of the split on
\* '-': a name gets the minimum-segment message exactly when it has fewer
\* than two non-empty segments, so 'myapp', '', '-' and 'my-' get it while
\* 'my--app' does not.
C22_MinSegmentsAfterFilter ==
  Validated =>
    /\ Reported(MsgMinSegments(variant)) <=> NonEmptySegmentCount(arg.v) < 2
    /\ arg.v \in FewSegmentSamples => Reported(MsgMinSegments(variant))
    /\ arg.v = <<"m","y","-","-","a","p","p">> => ~Reported(MsgMinSegments(variant))

\* 'my-' was validated and got the message
C22_Witness ==
  /\ Validated
  /\ arg.v = <<"m","y","-">>
  /\ Reported(MsgMinSegments(variant))

\* C23: for every NamingIntent whose fields are strings or unset, the string
\* returned by buildRepoName is a fixed point of toKebab, so validateRepoName
\* applied to it never reports the forbidden-character, double-hyphen or
\* edge-hyphen message, and reports the character-set message only when the
\* built name is empty.
C23_BuiltIsKebabFixedPoint ==
  (pc = "checked" /\ variant = "templates") =>
    /\ arg = Str(retStr)
    /\ retStr = buildRepoNameTemplates(intent)
    /\ toKebabTemplates(Str(retStr)) = retStr
    /\ ~Reported(MsgForbidden)
    /\ ~Reported(MsgDoubleHyphen)
    /\ ~Reported(MsgEdgeHyphen)
    /\ Reported(MsgCharset) => retStr = <<>>

\* a name built from a prefix and a description that both needed
\* normalising was validated
C23_Witness ==
  /\ pc = "checked" /\ variant = "templates"
  /\ intent.prefix = Str(<<"W","e","b","_">>)
  /\ intent.description = Str(<<"F","r","o","n","t"," ","E","n","d">>)
  /\ intent.raw = Undefined
  /\ retStr = <<"w","e","b","-","w","e","b","s","i","t","e","-","f","r","o","n","t","-","e","n","d">>
  /\ retVal.ok

\* a message of one of the two token rules is in errors
TokenMessageReported ==
  \E i \in 1..Len(retVal.errors) :
    retVal.errors[i].text \in {MsgBadToken(<<>>).text, MsgVersionToken(<<>>).text}

\* q occurs in p without being all of p
ProperSubstring(q, p) ==
  /\ Len(q) < Len(p)
  /\ \E i \in 1..(Len(p) - Len(q) + 1) : SubSeq(p, i, i + Len(q) - 1) = q

\* some segment of n merely contains a listed token or a v<digits> run
ContainsTokenInside(n) ==
  \E p \in SegmentSet(n) :
    \/ \E q \in SpecBadTokens : ProperSubstring(q, p)
    \/ \E i \in 1..(Len(p) - 1) : p[i] = "v" /\ p[i + 1] \in Digit /\ ~VDigits(p)

\* the names the statement lists
InsideTokenSamples ==
  { <<"m","y","-","n","e","w","s","l","e","t","t","e","r">>,
    <<"r","e","v","2","-","a","p","i">>,
    <<"v","1","a","-","a","p","p">> }

\* C24: the bad-token checks compare whole segments only: a name whose
\* segments merely contain a bad token as a proper substring (e.g.
\* my-newsletter, rev2-api, v1a-app) gets no token message and is accepted
\* when it breaks no other rule.
C24_WholeSegmentsOnly ==
  Validated =>
    /\ (\A p \in SegmentSet(arg.v) : p \notin SpecBadTokens /\ ~VDigits(p)) =>
         /\ ~TokenMessageReported
         /\ (IsCanonical(arg.v) /\ Cardinality(SegmentSpans(arg.v)) >= 2) => retVal.ok
    /\ arg.v \in InsideTokenSamples =>
         ContainsTokenInside(arg.v) /\ ~TokenMessageReported /\ retVal.ok

\* 'v1a-app' was validated and accepted
C24_Witness ==
  /\ Validated
  /\ arg.v = <<"v","1","a","-","a","p","p">>
  /\ ContainsTokenInside(arg.v)
  /\ retVal.ok

\* C25: toKebab, buildRepoName and validateRepoName never modify the
\* BadVersionToken set or any other shared state: after any sequence or
\* interleaving of calls from several callers the set is unchanged, and each
\* call's result depends only on its own argument (same input, same result).
C25_NoSharedStateChange ==
  /\ tokenSet = [m \in Variants |-> BAD_VERSION_TOKENS(m)]
  /\ \A a \in log : \A b \in log :
       (a.fn = b.fn /\ a.variant = b.variant /\ a.value = b.value /\ a.intent = b.intent)
         => (a.str = b.str /\ a.verdict = b.verdict)

\* both callers validated the same name with the same module, with another
\* call besides, and got the same rejection
C25_Witness ==
  /\ ncalls = MaxCalls
  /\ \E a \in log : \E b \in log :
       /\ a.caller # b.caller
       /\ a.fn = "validateRepoName" /\ b.fn = "validateRepoName"
       /\ a.variant = b.variant /\ a.value = b.value
       /\ a.value = Str(<<"m","y","-","a","p","p","-","v","1">>)
       /\ ~a.verdict.ok /\ a.verdict = b.verdict
  /\ \E k \in log : k.fn = "toKebab"

\* the position of tool t in git, node, gh, netlify, gcloud, flutter,
\* python, pipx, aider
OrderPosition(t) ==
  CHOOSE i \in 1..9 :
    <<"git", "node", "gh", "netlify", "gcloud", "flutter", "python", "pipx", "aider">>[i] = t

\* the step of tool t is over
StepFinished(t) == task[t] \in {"ok", "skipped"}

\* C26: bootstrap ensures tools in the order git, node, gh, netlify, gcloud,
\* flutter, python, pipx, aider: the netlify-cli npm install or upgrade, and
\* its check that npm exists, does not start until the node step has
\* finished.
C26_ToolsInOrder ==
  /\ \A t \in Tools : \A u \in Tools :
       (task[t] # "todo" /\ OrderPosition(u) < OrderPosition(t)) => StepFinished(u)
  /\ task["netlify"] # "todo" => StepFinished("node")

\* the six steps of Promise.all and the steps after it
SixSteps == {"git", "node", "gh", "netlify", "gcloud", "flutter"}
LaterSteps == {"python", "pipx", "aider"}

\* C27: in bootstrap.mjs, the python/pipx and aider steps, the version
\* listing and the final 'Done.' line are reached only if every one of the
\* six parallel ensure steps (git, node, gh, netlify, gcloud, flutter)
\* completed successfully; if any of them fails, main stops there and never
\* prints 'Done.'.
C27_LaterStepsNeedAllSix ==
  script = "bootstrap.mjs" =>
    /\ (phase = "done" \/ \E t \in LaterSteps : task[t] # "todo") =>
         \A u \in SixSteps : task[u] = "ok"
    /\ (\E u \in SixSteps : task[u] = "failed") =>
         /\ phase = "crashed"
         /\ \A t \in LaterSteps : task[t] = "todo" /\ did[t] = <<>>

\* gh's install failed after git's step had succeeded: main stopped before
\* python
C27_Witness ==
  /\ script = "bootstrap.mjs"
  /\ task["git"] = "ok"
  /\ task["gh"] = "failed" /\ did["gh"] # <<>>
  /\ phase = "crashed"
  /\ task["python"] = "todo"

\* the commands of the Netlify block, in order, as the flags ask for them
NetlifyCommands ==
  <<IF env.netlifyName THEN "netlify sites:create --name N" ELSE "netlify sites:create",
    "netlify link", "netlify status">>

\* the last git command of the run
LastGitCommand == IF env.skipPush THEN "git commit" ELSE "git push"

\* C28: when new-project.mjs runs with --netlify and --netlify-name N, after
\* the initial commit (and push) it runs netlify sites:create --name N, then
\* netlify link, then netlify status; with --netlify but no --netlify-name
\* it runs netlify sites:create without a name.
C28_NetlifyAfterCommit ==
  /\ [](\A i \in 1..Len(ran) :
          (ran[i] \in {"netlify sites:create", "netlify sites:create --name N"}) =>
            /\ env.netlify
            /\ i > 1 /\ ran[i - 1] = LastGitCommand
            /\ ran[i] = NetlifyCommands[1]
            /\ \A k \in 1..2 : i + k <= Len(ran) => ran[i + k] = NetlifyCommands[k + 1])
  /\ [][(pc = "netlify" /\ env.netlify) => pc' = "sites"]_vars

\* position i of the command line is read as a key position: the first
\* one, and every one that the token before it did not consume as its value
RECURSIVE InKeyPosition(_)
InKeyPosition(i) ==
  IF i <= 1 THEN TRUE
  ELSE IF InKeyPosition(i - 1)
       THEN ~(/\ Len(argv[i - 1]) >= 2 /\ SubSeq(argv[i - 1], 1, 2) = <<"-","-">>
              /\ argv[i] # <<>>
              /\ ~(Len(argv[i]) >= 2 /\ SubSeq(argv[i], 1, 2) = <<"-","-">>))
       ELSE TRUE

\* the positions where the key k is given
KeyPositions(k) ==
  { i \in 1..Len(argv) : InKeyPosition(i) /\ argv[i] = <<"-","-">> \o k }

\* the value the last occurrence of key k asks for
LastValue(k) ==
  LET i == CHOOSE j \in KeyPositions(k) : \A o \in KeyPositions(k) : o <= j
  IN IF /\ i + 1 <= Len(argv) /\ argv[i + 1] # <<>>
        /\ ~(Len(argv[i + 1]) >= 2 /\ SubSeq(argv[i + 1], 1, 2) = <<"-","-">>)
     THEN Str(argv[i + 1]) ELSE JsTrue

\* the keys that can occur on the command lines of the model
PossibleKeys == { SubSeq(a, 3, Len(a)) : a \in { b \in ArgTokens : Len(b) >= 2 } }

\* args holds key k with the value of its last occurrence, or does not hold
\* it when it was never given
KeyAsGiven(k) ==
  IF KeyPositions(k) = {} THEN \A e \in args : e.key # k
  ELSE /\ [key |-> k, val |-> LastValue(k)] \in args
       /\ \A e \in args : e.key = k => e.val = LastValue(k)

ProtoKey == <<"_","_","p","r","o","t","o","_","_">>

\* C29 as stated: parseArgs maps each argv token that starts with '--' to a
\* key: if the following token exists, is non-empty and does not start with
\* '--', that token becomes the key's value and is consumed (it is never
\* read as a key itself); otherwise the value is true; tokens that do not
\* start with '--' in key position are ignored, and a repeated key keeps its
\* last value.
C29_EveryKeyMapped ==
  ppc = "returned" =>
    /\ \A k \in PossibleKeys : KeyAsGiven(k)
    /\ \A e \in args : e.key \in PossibleKeys

\* C29 amended: the same for every key but __proto__, which the object
\* never holds as a key of its own.
C29_EveryKeyButProtoMapped ==
  ppc = "returned" =>
    /\ \A k \in PossibleKeys \ {ProtoKey} : KeyAsGiven(k)
    /\ \A e \in args : e.key \in PossibleKeys \ {ProtoKey}

\* --repo my-app --repo was parsed: the repeated key kept its last value
C29_Witness ==
  /\ ppc = "returned"
  /\ argv = << <<"-","-","r","e","p","o">>, <<"m","y","-","a","p","p">>, <<"-","-","r","e","p","o">> >>
  /\ args = {[key |-> <<"r","e","p","o">>, val |-> JsTrue]}

\* --dryRun is on the command line
DryRunPassed == \E i \in 1..Len(argv) : argv[i] = <<"-","-","d","r","y","R","u","n">>

\* C30: in the generated functions/api/scripts/deploy.mjs, when dry-run is
\* enabled by passing --dryRun, no gcloud command is executed: every command
\* passed to run is only logged.
C30_DryRunExecutesNothing ==
  (dpc # "idle" /\ DryRunPassed) => executed = <<>>

====
